---------------------------- MODULE Spec2Model ----------------------------
(***************************************************************************)
(* Merge-queue orchestrator of KM-Playground/super-heroes                  *)
(* (.github/scripts/merge_queue/*.py over .github/scripts/common/          *)
(* gh_utils.py).  Every script is a process of its own; the hosting        *)
(* platform (issues, comments, workflow runs, pull requests) is the only   *)
(* shared state.  The specifications exercise the scripts:                 *)
(*   SpecLock      admission checks, tracking-issue creation and release   *)
(*   SpecApproval  the approval loop of wait_for_approval.py               *)
(*   SpecPipeline  validate_prs.py followed by merge_prs_sequentially.py   *)
(*   SpecSignals   the approval loop or the pipeline, for what both share  *)
(*   SpecPipelineFair  SpecPipeline with the pipeline script run to its end *)
(*   SpecValidator get_required_approvals and validate_pr on one candidate *)
(*   SpecMerge     merge_pr on one candidate, every answer of the platform *)
(*   SpecRelease   the release candidate: validation, then the release step *)
(*   SpecRace      two runs in merge_pr on the same candidate              *)
(* The reporter (generate_summary.py) is the last step of SpecPipeline.    *)
(***************************************************************************)
EXTENDS Integers, Sequences, FiniteSets, TLC

VARIABLES
  \* ---- platform and runs of the lock manager (SpecLock)
  tracking,     \* issues labelled distributed-lock: [num, orig, open, by]
  nextNum,      \* next issue number the platform hands out
  inProgress,   \* runs the platform lists as in_progress
  lpc,          \* run -> position in the workflow
  lorig,        \* run -> originator (ISSUE_NUMBER)
  ldone,        \* run -> admission checks already passed
  lrc,          \* run -> script -> exit statuses returned (empty: not run)
  calls,        \* platform calls issued so far: [run, op, arg]
  props         \* run -> TRACKING_ISSUE_NUMBER of /tmp/tracking_issue.properties (0: no file)

lockVars == <<tracking, nextNum, inProgress, lpc, lorig, ldone, lrc, calls, props>>

VARIABLES
  \* ---- approval loop on one originator (SpecApproval)
  acomments,         \* comments of the originator, in listing order
  now,               \* platform clock
  trigger_timestamp, \* TRIGGER_COMMENT_TIME
  team_members,      \* TEAM_MEMBERS, empty when the workflow could not resolve the team
  botLogin,          \* account the automation comments as
  apc,               \* position of wait_for_approval.main
  elapsed_minutes,
  warned_unauthorized_approvals,
  warned_unauthorized_rejections,
  verdict,           \* what check_for_approval_or_rejection returned to main last
  considered,        \* comments get_comments_after_timestamp has returned so far
  arc,               \* exit statuses wait_for_approval.main returned (empty: running)
  approvedOut,       \* "approved" written to GITHUB_OUTPUT
  validatorStarted   \* the workflow went on to validation and merging

apprVars == <<acomments, now, trigger_timestamp, team_members, botLogin, apc,
              elapsed_minutes, warned_unauthorized_approvals,
              warned_unauthorized_rejections, verdict, considered, arc,
              approvedOut, validatorStarted>>

VARIABLES
  \* ---- validator and merge pipeline of one run (SpecPipeline)
  request,          \* PR_NUMBERS split at its commas
  ppc,              \* position of validate_prs.main / merge_prs_sequentially.main
  mergeable_prs,    \* validator output "mergeable"
  unmergeable_prs,  \* validator output "unmergeable"
  pr_numbers,       \* the list main iterates over
  pidx,             \* index of the candidate in process
  buckets,          \* merged, failed_update, failed_ci, timeout, failed_merge, startup_timeout
  github_output,    \* what main wrote to GITHUB_OUTPUT (empty: nothing written yet)
  ptrigger,         \* trigger_timestamp of the candidate in process
  wait_time,        \* polls slept in the current wait
  run_id,           \* run id taken from the CI-start comment
  prComments,       \* comments of the CI system on the PRs: [pr, createdAt, body, run]
  pnow,             \* platform clock
  ciRuns,           \* workflow run id -> status
  ciPending,        \* a trigger comment is waiting for CI to pick it up
  prState,          \* candidate -> OPEN / MERGED
  rebaseOk,         \* the platform really updated the branch of the candidate in process
  started,          \* candidates in the order main started on them
  mergeCalls,       \* merge calls issued: [pr, idx, rebased, ci]
  signals           \* CI-start comments consumed: [createdAt, trigger]

pipeVars == <<request, ppc, mergeable_prs, unmergeable_prs, pr_numbers, pidx, buckets,
              github_output,
              ptrigger, wait_time, run_id, prComments, pnow, ciRuns, ciPending,
              prState, rebaseOk, started, mergeCalls, signals>>

VARIABLES
  \* ---- reporter of the same run (generate_summary.py)
  originatorOpen,   \* the originator issue is open on the platform
  reportCalls,      \* platform calls of the reporter: [op, target, category]
  rrc               \* exit statuses generate_summary.main returned (empty: not run)

repVars == <<originatorOpen, reportCalls, rrc>>

VARIABLES
  \* ---- required approvals and the validation of one candidate (validate_prs.py)
  vpc,          \* "extract", "approvals", "validate", "done" or "off"
  override,     \* the approvals override of the originator body: [form, text]
  manual,       \* REQUIRED_APPROVALS as the validator reads it
  protection,   \* the platform's answer to the branch protection query
  vrequired,    \* the count get_required_approvals returned (empty: not yet)
  vsnapshot,    \* the snapshot validate_pr read: [info, state]
  vresult       \* what validate_pr returned: [is_mergeable, failure_reasons]

valVars == <<vpc, override, manual, protection, vrequired, vsnapshot, vresult>>

VARIABLES
  \* ---- Step E on one candidate (merge_pr of merge_prs_sequentially.py)
  mpc,          \* "merge", "done" or "off"
  minput,       \* what the platform answered to the calls of merge_pr
  moutput       \* what merge_pr did and returned, and the bucket main chose

mergeVars == <<mpc, minput, moutput>>

VARIABLES
  \* ---- the release candidate of one run (validate_prs.py, merge_release_pr.py)
  relpc,         \* "validate", "regular", "release", "done" or "off"
  release_pr,    \* RELEASE_PR of the run
  relRegular,    \* regular candidates of the run that have no outcome yet
  relInfo,       \* the release PR on the platform: [state, mergeable]
  relValidation, \* what validate_pr returned for the release PR
  relCall,       \* the gh pr merge of merge_release_pr: [delete_branch, landed]
  relrc          \* exit status of merge_release_pr.py

relVars == <<relpc, release_pr, relRegular, relInfo, relValidation, relCall, relrc>>

VARIABLES
  \* ---- two runs at Step E on the same candidate (merge_pr, interleaved)
  racepc,        \* per run: "refetch", "call", "verify" or "done"; "off"
  raceState,     \* state of the candidate on the platform
  raceMerges,    \* the runs whose merge call merged the candidate, in order
  raceSeen,      \* per run: what its calls returned so far
  raceBucket     \* per run: the bucket main chose

raceVars == <<racepc, raceState, raceMerges, raceSeen, raceBucket>>

vars == <<lockVars, apprVars, pipeVars, repVars, valVars, mergeVars, relVars, raceVars>>
notLock == <<apprVars, pipeVars, repVars, valVars, mergeVars, relVars, raceVars>>
notApproval == <<lockVars, pipeVars, repVars, valVars, mergeVars, relVars, raceVars>>
notPipeline == <<lockVars, apprVars, repVars, valVars, mergeVars, relVars, raceVars>>
notValidator == <<lockVars, apprVars, pipeVars, repVars, mergeVars, relVars, raceVars>>
notMerge == <<lockVars, apprVars, pipeVars, repVars, valVars, relVars, raceVars>>
notRelease == <<lockVars, apprVars, pipeVars, repVars, valVars, mergeVars, raceVars>>
notRace == <<lockVars, apprVars, pipeVars, repVars, valVars, mergeVars, relVars>>

-----------------------------------------------------------------------------
(* Bounds *)
NumRuns == 2
TimeoutMinutes == 3
ReminderInterval == 1
MaxHumanComments == 2

Runs == 1..NumRuns
\* 4 and 42: the decimal digits of one originator are a prefix of the other's
Originators == {4, 42}
None == 0

-----------------------------------------------------------------------------
(* Strings as sequences of characters *)

DigitChars == <<"0", "1", "2", "3", "4", "5", "6", "7", "8", "9">>

RECURSIVE str(_)
\* Python str(n) / f"{n}" of a non-negative int
str(n) == IF n < 10 THEN <<DigitChars[n + 1]>>
          ELSE str(n \div 10) \o <<DigitChars[(n % 10) + 1]>>

DigitVal(c) == (CHOOSE d \in 1..10 : DigitChars[d] = c) - 1
IsDigits(s) == Len(s) > 0 /\ \A k \in 1..Len(s) : \E d \in 1..10 : DigitChars[d] = s[k]

RECURSIVE int(_)
\* Python int() of a decimal string
int(s) == IF Len(s) = 1 THEN DigitVal(s[1])
          ELSE 10 * int(SubSeq(s, 1, Len(s) - 1)) + DigitVal(s[Len(s)])

RECURSIVE join(_)
\* ",".join(items): the text the pipeline writes to GITHUB_OUTPUT
join(items) ==
  IF items = <<>> THEN <<>>
  ELSE IF Len(items) = 1 THEN items[1]
  ELSE items[1] \o <<",">> \o join(Tail(items))

RECURSIVE split(_)
\* value.split(','): always at least one field
split(text) ==
  IF \A k \in 1..Len(text) : text[k] # ","
  THEN <<text>>
  ELSE LET c == CHOOSE k \in 1..Len(text) :
                  text[k] = "," /\ \A j \in 1..(k - 1) : text[j] # ","
       IN <<SubSeq(text, 1, c - 1)>> \o split(SubSeq(text, c + 1, Len(text)))

RECURSIVE strip(_)
strip(text) ==
  IF text = <<>> THEN text
  ELSE IF Head(text) = " " THEN strip(Tail(text))
  ELSE IF text[Len(text)] = " " THEN strip(SubSeq(text, 1, Len(text) - 1))
  ELSE text

startswith(s, prefix) ==
  /\ Len(prefix) <= Len(s)
  /\ SubSeq(s, 1, Len(prefix)) = prefix

get_tracking_issue_title(original_issue_number) ==
  <<"[MERGE QUEUE TRACKING] Issue #">> \o str(original_issue_number)
     \o <<" - Auto Merge In Progress">>

title_pattern(original_issue_number) ==
  <<"[MERGE QUEUE TRACKING] Issue #">> \o str(original_issue_number)

-----------------------------------------------------------------------------
(* Platform adapter, common/gh_utils.py *)

\* CommandResult.success of _run_gh_command: subprocess.run raises
\* CalledProcessError only with check=True, so with check=False the flag is
\* True whatever the exit status of gh was.
run_gh_command(exitOk, check) == IF check THEN exitOk ELSE TRUE

\* What the label argument of create_issue is
IsList(label) == label \in Seq({"distributed-lock", "automation"})

create_issue_accepts_list(label, platformOk) ==
  [raised |-> FALSE, success |-> run_gh_command(platformOk, FALSE), created |-> platformOk]

\* create_issue(title, body, label): args.extend(['--label', label]) puts the
\* value into the argument list as one element; _run_gh_command joins the
\* arguments with ' '.join(command) before the try block, which raises
\* TypeError when an element is a list.  No gh command runs in that case.
create_issue(label, platformOk) ==
  IF IsList(label)
  THEN [raised |-> TRUE, success |-> FALSE, created |-> FALSE]
  ELSE [raised |-> FALSE, success |-> run_gh_command(platformOk, FALSE), created |-> platformOk]

\* list_issues(state="open", label="distributed-lock", limit=50): the open
\* labelled issues, newest first; a failed listing has success = FALSE.
list_issues(listOk) ==
  [success |-> listOk,
   issues  |-> IF listOk THEN {t \in tracking : t.open} ELSE {}]

\* get_running_workflows runs gh with check=True (the default)
get_running_workflows(listOk) ==
  [success |-> run_gh_command(listOk, TRUE),
   runs    |-> IF listOk THEN inProgress ELSE {}]

\* close_issue(number): closes the issue; the result tells whether it did
close_issue(closeOk) == [success |-> closeOk]

EmptyDict == [k \in {} |-> k]
Get(dict, key, default) == IF key \in DOMAIN dict THEN dict[key] ELSE default

\* what gh api repos/<repo>/branches/<branch>/protection can write to stdout
ProtectionDoc(count) ==
  [required_pull_request_reviews |-> [required_approving_review_count |-> count],
   enforce_admins |-> TRUE]
ErrorDoc(status, message) == [message |-> message, status |-> status]
ProtectionResponses ==
  {[exitOk |-> TRUE, text |-> "json", value |-> ProtectionDoc(2)],
   [exitOk |-> TRUE, text |-> "json", value |-> [enforce_admins |-> TRUE]],
   [exitOk |-> FALSE, text |-> "json", value |-> ErrorDoc("404", "Branch not protected")],
   [exitOk |-> FALSE, text |-> "json", value |-> ErrorDoc("403", "Resource not accessible")],
   [exitOk |-> FALSE, text |-> "not json", value |-> EmptyDict],
   [exitOk |-> FALSE, text |-> "", value |-> EmptyDict]}

\* json.loads: a parsed document or JSONDecodeError
json_loads(response) ==
  IF response.text = "json" THEN [ok |-> TRUE, value |-> response.value]
  ELSE [ok |-> FALSE, value |-> EmptyDict]

\* GitHubUtils.get_branch_protection: gh api with check=False
get_branch_protection(response) ==
  [success |-> run_gh_command(response.exitOk, FALSE), stdout |-> response]

\* GitHubUtils.is_branch_protected
is_branch_protected(response) ==
  LET result == get_branch_protection(response)
      parsed == json_loads(result.stdout)
      protection_data == IF result.stdout.text = "" THEN EmptyDict ELSE parsed.value
  IN IF ~result.success THEN FALSE
     ELSE IF result.stdout.text # "" /\ ~parsed.ok THEN FALSE
     ELSE IF {"message", "status"} \subseteq DOMAIN protection_data THEN FALSE
     ELSE DOMAIN protection_data # {}

-----------------------------------------------------------------------------
(* Lock manager: check_duplicate_runs.py, check_consecutive_execution.py,  *)
(* initialize_merge_queue.py, close_tracking_issue.py                      *)

Labels == <<"distributed-lock", "automation">>

\* no script of the run has exited yet; a script that exits adds its status,
\* and an exception that escapes a script is added to raised
NoRc == [consec |-> {}, dup |-> {}, init |-> {}, close |-> {}, raised |-> {}]

Call(r, op, arg) == [run |-> r, op |-> op, arg |-> arg]

Newest(S) == CHOOSE t \in S : \A u \in S : u.num <= t.num

find_existing_fail_closed(original_issue_number, listOk) ==
  LET result  == list_issues(listOk)
      matches == {t \in result.issues :
                    startswith(get_tracking_issue_title(t.orig),
                               title_pattern(original_issue_number))}
  IN IF ~result.success THEN nextNum
     ELSE IF matches = {} THEN None
     ELSE Newest(matches).num

\* the first issue of the listing whose title starts with the pattern
find_existing_tracking_issue(original_issue_number, listOk) ==
  LET result  == list_issues(listOk)
      matches == {t \in result.issues :
                    startswith(get_tracking_issue_title(t.orig),
                               title_pattern(original_issue_number))}
  IN IF ~result.success THEN None
     ELSE IF matches = {} THEN None
     ELSE Newest(matches).num

\* TRUE: execution may proceed
check_consecutive_execution(listOk) ==
  LET running     == get_running_workflows(listOk)
      merge_count == IF running.success THEN Cardinality(running.runs) ELSE 0
  IN ~(merge_count > 1)

check_duplicate_runs_main_exit_zero(existing_tracking_issue) == 0

\* exit status of check_duplicate_runs.main
check_duplicate_runs_main(existing_tracking_issue) ==
  IF existing_tracking_issue # None THEN 1 ELSE 0

\* The platform lists a workflow run as in_progress from its start
StartRun(r) ==
  /\ lpc[r] = "queued"
  /\ lpc' = [lpc EXCEPT ![r] = "admission"]
  /\ inProgress' = inProgress \cup {r}
  /\ UNCHANGED <<tracking, nextNum, lorig, ldone, lrc, calls, props>>
  /\ UNCHANGED notLock

AfterCheck(r, check) ==
  IF ldone[r] \cup {check} = {"consec", "dup"} THEN "initialize" ELSE "admission"

CheckConsecutive(r) ==
  /\ lpc[r] = "admission"
  /\ "consec" \notin ldone[r]
  /\ \E listOk \in BOOLEAN :
       IF check_consecutive_execution(listOk)
       THEN /\ lrc' = [lrc EXCEPT ![r].consec = {0}]
            /\ ldone' = [ldone EXCEPT ![r] = @ \cup {"consec"}]
            /\ lpc' = [lpc EXCEPT ![r] = AfterCheck(r, "consec")]
            /\ UNCHANGED calls
       ELSE /\ calls' = calls \cup {Call(r, "blocking_comment", lorig[r])}
            /\ lrc' = [lrc EXCEPT ![r].consec = {1}]
            /\ lpc' = [lpc EXCEPT ![r] = "refused_consec"]
            /\ UNCHANGED ldone
  /\ UNCHANGED <<tracking, nextNum, inProgress, lorig, props>>
  /\ UNCHANGED notLock

CheckDuplicate(r) ==
  /\ lpc[r] = "admission"
  /\ "dup" \notin ldone[r]
  /\ \E listOk \in BOOLEAN :
       LET existing == find_existing_tracking_issue(lorig[r], listOk) IN
       /\ lrc' = [lrc EXCEPT ![r].dup = {check_duplicate_runs_main(existing)}]
       /\ IF existing # None
          THEN /\ calls' = calls \cup {Call(r, "duplicate_comment", existing)}
               /\ lpc' = [lpc EXCEPT ![r] = "refused_dup"]
               /\ UNCHANGED ldone
          ELSE /\ ldone' = [ldone EXCEPT ![r] = @ \cup {"dup"}]
               /\ lpc' = [lpc EXCEPT ![r] = AfterCheck(r, "dup")]
               /\ UNCHANGED calls
  /\ UNCHANGED <<tracking, nextNum, inProgress, lorig, props>>
  /\ UNCHANGED notLock

\* ISSUE_BODY: the line under "### PR Numbers" of each originator's body
IssueBodies == (4 :> <<"x", ",">>) @@ (42 :> (str(7) \o <<",">> \o str(12)))

TBD == <<"T", "B", "D">>

\* extract_pr_info_from_issue_body, the pr_numbers part for a template section
extract_pr_numbers(line) ==
  IF \E k \in 1..Len(line) : line[k] = ","
  THEN LET fields  == split(line)
           pr_list == SelectSeq([k \in 1..Len(fields) |-> strip(fields[k])], IsDigits)
       IN IF pr_list # <<>> THEN join(pr_list) ELSE TBD
  ELSE IF IsDigits(line) THEN line ELSE TBD

create_tracking_issue_with_label(pr_numbers_text, platformOk, urlOk) ==
  LET result == create_issue_accepts_list(Labels, platformOk) IN
  [raised  |-> result.raised,
   created |-> result.created,
   number  |-> IF ~result.raised /\ result.success /\ result.created /\ urlOk
               THEN nextNum ELSE None]

\* create_tracking_issue: [raised, created, number]; number is None when the
\* command printed no parsable .../issues/<n> URL
create_tracking_issue(pr_numbers_text, platformOk, urlOk) ==
  LET result == create_issue(Labels, platformOk) IN
  [raised  |-> result.raised,
   created |-> result.created,
   number  |-> IF ~result.raised /\ result.success /\ result.created /\ urlOk
               THEN nextNum ELSE None]

\* initialize_merge_queue.main
InitializeRun(r) ==
  /\ lpc[r] = "initialize"
  /\ \E platformOk \in BOOLEAN, urlOk \in BOOLEAN :
       LET pr_info == extract_pr_numbers(IssueBodies[lorig[r]])
           t       == create_tracking_issue(pr_info, platformOk, urlOk)
       IN
       /\ calls' = calls \cup {Call(r, "create_issue", lorig[r])}
       /\ IF t.created
          THEN /\ tracking' = tracking \cup
                                {[num |-> nextNum, orig |-> lorig[r], open |-> TRUE, by |-> r]}
               /\ nextNum' = nextNum + 1
          ELSE UNCHANGED <<tracking, nextNum>>
       /\ IF t.number # None
          THEN /\ props' = [props EXCEPT ![r] = t.number]
               /\ lrc' = [lrc EXCEPT ![r].init = {0}]
               /\ lpc' = [lpc EXCEPT ![r] = "approval"]
          ELSE /\ lrc' = [lrc EXCEPT ![r].init = {1},
                                      ![r].raised = IF t.raised THEN {"TypeError"} ELSE {}]
               /\ lpc' = [lpc EXCEPT ![r] = "release"]
               /\ UNCHANGED props
  /\ UNCHANGED <<inProgress, lorig, ldone>>
  /\ UNCHANGED notLock

\* close_tracking_issue.main with COMPLETION_STATUS=failed
ReleaseRun(r) ==
  /\ lpc[r] = "release"
  /\ \E listOk \in BOOLEAN, closeOk \in BOOLEAN :
       LET tracking_issue_number ==
             IF props[r] # None THEN props[r]
             ELSE find_existing_tracking_issue(lorig[r], listOk)
       IN IF tracking_issue_number = None
          THEN /\ lrc' = [lrc EXCEPT ![r].close = {0}]
               /\ UNCHANGED <<calls, tracking>>
          ELSE /\ calls' = calls \cup
                     {Call(r, "completion_comment", tracking_issue_number),
                      Call(r, "close_issue", tracking_issue_number)}
               /\ IF close_issue(closeOk).success
                  THEN /\ tracking' = {IF t.num = tracking_issue_number
                                         THEN [t EXCEPT !.open = FALSE] ELSE t
                                       : t \in tracking}
                       /\ lrc' = [lrc EXCEPT ![r].close = {0}]
                  ELSE /\ lrc' = [lrc EXCEPT ![r].close = {1}]
                       /\ UNCHANGED tracking
  /\ lpc' = [lpc EXCEPT ![r] = "done"]
  /\ UNCHANGED <<nextNum, inProgress, lorig, ldone, props>>
  /\ UNCHANGED notLock

\* The workflow run of a finished or refused request completes on the platform
EndRun(r) ==
  /\ lpc[r] \in {"refused_consec", "refused_dup", "done"}
  /\ r \in inProgress
  /\ inProgress' = inProgress \ {r}
  /\ UNCHANGED <<tracking, nextNum, lpc, lorig, ldone, lrc, calls, props>>
  /\ UNCHANGED notLock

PreExisting == {[num |-> 1, orig |-> 42, open |-> TRUE, by |-> None],
                [num |-> 2, orig |-> 4, open |-> TRUE, by |-> None]}

LockStart ==
  /\ tracking \in SUBSET PreExisting
  /\ nextNum = 3
  /\ inProgress = {}
  /\ lpc = [r \in Runs |-> "queued"]
  /\ lorig \in [Runs -> Originators]
  /\ ldone = [r \in Runs |-> {}]
  /\ lrc = [r \in Runs |-> NoRc]
  /\ calls = {}
  /\ props = [r \in Runs |-> None]

\* no run of the lock manager exists
LockOff ==
  /\ tracking = {}
  /\ nextNum = 3
  /\ inProgress = {}
  /\ lpc = [r \in Runs |-> "off"]
  /\ lorig = [r \in Runs |-> 42]
  /\ ldone = [r \in Runs |-> {}]
  /\ lrc = [r \in Runs |-> NoRc]
  /\ calls = {}
  /\ props = [r \in Runs |-> None]

-----------------------------------------------------------------------------
(* Approval controller: wait_for_approval.py *)

Members == {"alice"}                 \* the merge-approvals team on the platform
Humans == {"alice", "mallory"}
\* accounts the workflow token can belong to: the Actions bot, an app or
\* machine user, a personal token of a team member
AutomationLogins == {"github-actions[bot]", "merge-bot", "alice"}

\* A body is modelled by the keywords its lower-cased text contains
approval_keywords == {"approved", "thumbs-up"}
rejection_keywords == {"rejected", "thumbs-down"}
HumanBodies == {{"approved"}, {"rejected"}, {"approved", "rejected"}, {}}

\* Texts the script posts, by the keywords they contain
WarningBody == {}                               \* "Unauthorized Approval/Rejection Attempt ..."
ReminderBody == {"approved", "rejected"}        \* "... Reply with 'approved' ... 'rejected'"
TimeoutBody == {}                               \* "Approval Timeout ..."
ApprovalConfirmationBody == {"approved"}        \* "Approved by @..."
RejectionConfirmationBody == {"rejected"}       \* "Rejected by @... has been rejected"

\* parse_iso_timestamp: None for an empty or unparsable string
parse_iso_timestamp(ts) == IF ts = None THEN None ELSE ts

\* wait_for_approval.py:69  comment_dt > trigger_dt
is_after_trigger(comment_dt, trigger_dt) == comment_dt > trigger_dt

\* get_all_comments runs gh with check=True: a failed listing is seen
get_comments_after_timestamp(listOk) ==
  LET trigger_dt == parse_iso_timestamp(trigger_timestamp)
      Keep(c) == /\ parse_iso_timestamp(c.createdAt) # None
                 /\ is_after_trigger(parse_iso_timestamp(c.createdAt), trigger_dt)
                 /\ c.author # "github-actions[bot]"
  IN IF ~run_gh_command(listOk, TRUE) \/ trigger_dt = None THEN <<>>
     ELSE SelectSeq(acomments, Keep)

\* is_team_member: the members API is called with check=False
is_team_member(username) == run_gh_command(username \in Members, FALSE)

is_authorized(author) ==
  IF team_members # {} THEN author \in team_members ELSE is_team_member(author)

NoVerdict == [status |-> "none", user |-> "", id |-> 0, createdAt |-> 0]

RECURSIVE scan_comments_warn_every_poll(_, _, _, _, _)
scan_comments_warn_every_poll(cs, i, wa, wr, warnings) ==
  IF i > Len(cs)
  THEN [verdict |-> NoVerdict, wa |-> wa, wr |-> wr, warnings |-> warnings]
  ELSE LET c   == cs[i]
       IN IF c.author = "github-actions"
          THEN scan_comments_warn_every_poll(cs, i + 1, wa, wr, warnings)
          ELSE IF c.body \cap approval_keywords # {}
          THEN IF is_authorized(c.author)
               THEN [verdict  |-> [status |-> "approved", user |-> c.author,
                                   id |-> c.id, createdAt |-> c.createdAt],
                     wa |-> wa, wr |-> wr, warnings |-> warnings]
               ELSE scan_comments_warn_every_poll(cs, i + 1, wa, wr, Append(warnings, c.id))
          ELSE IF c.body \cap rejection_keywords # {}
          THEN IF is_authorized(c.author)
               THEN [verdict  |-> [status |-> "rejected", user |-> c.author,
                                   id |-> c.id, createdAt |-> c.createdAt],
                     wa |-> wa, wr |-> wr, warnings |-> warnings]
               ELSE scan_comments_warn_every_poll(cs, i + 1, wa, wr, Append(warnings, c.id))
          ELSE scan_comments_warn_every_poll(cs, i + 1, wa, wr, warnings)

send_reminder_due_from_start(elapsed, reminder_interval) ==
  elapsed % reminder_interval = 0

RECURSIVE scan_comments(_, _, _, _, _)
\* the for loop of check_for_approval_or_rejection from comment i on:
\* [verdict, wa, wr, warnings] with the warned sets and the ids warned about
scan_comments(cs, i, wa, wr, warnings) ==
  IF i > Len(cs)
  THEN [verdict |-> NoVerdict, wa |-> wa, wr |-> wr, warnings |-> warnings]
  ELSE LET c   == cs[i]
           key == <<c.author, c.id>>
       IN IF c.author = "github-actions"
          THEN scan_comments(cs, i + 1, wa, wr, warnings)
          ELSE IF c.body \cap approval_keywords # {}
          THEN IF is_authorized(c.author)
               THEN [verdict  |-> [status |-> "approved", user |-> c.author,
                                   id |-> c.id, createdAt |-> c.createdAt],
                     wa |-> wa, wr |-> wr, warnings |-> warnings]
               ELSE IF key \notin wa
               THEN scan_comments(cs, i + 1, wa \cup {key}, wr, Append(warnings, c.id))
               ELSE scan_comments(cs, i + 1, wa, wr, warnings)
          ELSE IF c.body \cap rejection_keywords # {}
          THEN IF is_authorized(c.author)
               THEN [verdict  |-> [status |-> "rejected", user |-> c.author,
                                   id |-> c.id, createdAt |-> c.createdAt],
                     wa |-> wa, wr |-> wr, warnings |-> warnings]
               ELSE IF key \notin wr
               THEN scan_comments(cs, i + 1, wa, wr \cup {key}, Append(warnings, c.id))
               ELSE scan_comments(cs, i + 1, wa, wr, warnings)
          ELSE scan_comments(cs, i + 1, wa, wr, warnings)

check_for_approval_or_rejection(listOk) ==
  scan_comments(get_comments_after_timestamp(listOk), 1,
                warned_unauthorized_approvals, warned_unauthorized_rejections, <<>>)

RECURSIVE PostAll(_, _, _, _)
\* add_comment for each body, in order, on the originator; about is what the
\* text refers to: the comment id of a warning, the remaining minutes of a
\* reminder
PostAll(cs, bodies, kind, about) ==
  IF bodies = <<>> THEN cs
  ELSE PostAll(Append(cs, [id |-> Len(cs) + 1, author |-> botLogin,
                           body |-> Head(bodies), createdAt |-> now, kind |-> Head(kind),
                           about |-> Head(about)]),
               Tail(bodies), Tail(kind), Tail(about))

\* main: remaining_minutes of the reminder
remaining_minutes(timeout_minutes, elapsed) == timeout_minutes - elapsed

send_reminder_due(elapsed, reminder_interval) ==
  elapsed > 0 /\ elapsed % reminder_interval = 0

exit_zero_always(status) == [rc |-> 0, approved |-> IF status = "approved" THEN "true" ELSE "false"]

\* exit status and "approved" output of wait_for_approval.main
approval_exit(status) ==
  IF status = "approved" THEN [rc |-> 0, approved |-> "true"]
  ELSE [rc |-> 1, approved |-> "false"]

\* one iteration of the while loop of main
Poll ==
  /\ apc = "polling"
  /\ elapsed_minutes < TimeoutMinutes
  /\ \E listOk \in BOOLEAN, commentOk \in BOOLEAN :
       LET res  == check_for_approval_or_rejection(listOk)
           v    == res.verdict
           seen == get_comments_after_timestamp(listOk)
           warnBodies == [k \in 1..Len(res.warnings) |-> WarningBody]
           warnKinds  == [k \in 1..Len(res.warnings) |-> "warning"]
           decided == v.status \in {"approved", "rejected"} /\ v.user # ""
           more == IF decided
                   THEN IF v.status = "approved"
                        THEN <<ApprovalConfirmationBody>> ELSE <<RejectionConfirmationBody>>
                   ELSE IF send_reminder_due(elapsed_minutes, ReminderInterval)
                        THEN <<ReminderBody>> ELSE <<>>
           moreKinds == IF decided THEN <<"confirmation">>
                        ELSE IF more # <<>> THEN <<"reminder">> ELSE <<>>
           moreAbout == IF decided THEN <<v.id>>
                        ELSE IF more # <<>>
                             THEN <<remaining_minutes(TimeoutMinutes, elapsed_minutes)>>
                             ELSE <<>>
       IN /\ considered' = considered \cup {seen[k].id : k \in 1..Len(seen)}
          /\ warned_unauthorized_approvals' = res.wa
          /\ warned_unauthorized_rejections' = res.wr
          /\ verdict' = v
          /\ acomments' = IF commentOk
                          THEN PostAll(acomments, warnBodies \o more, warnKinds \o moreKinds,
                                       res.warnings \o moreAbout)
                          ELSE acomments
          /\ IF decided
             THEN /\ apc' = "done"
                  /\ arc' = {approval_exit(v.status).rc}
                  /\ approvedOut' = approval_exit(v.status).approved
                  /\ UNCHANGED <<elapsed_minutes, now>>
             ELSE /\ elapsed_minutes' = elapsed_minutes + 1
                  /\ now' = now + 1
                  /\ UNCHANGED <<apc, arc, approvedOut>>
  /\ UNCHANGED <<trigger_timestamp, team_members, botLogin, validatorStarted>>
  /\ UNCHANGED notApproval

\* the loop ends: send_timeout_message, approved=false, return 1
ApprovalTimeout ==
  /\ apc = "polling"
  /\ ~(elapsed_minutes < TimeoutMinutes)
  /\ \E commentOk \in BOOLEAN :
       acomments' = IF commentOk THEN PostAll(acomments, <<TimeoutBody>>, <<"timeout">>,
                                                     <<TimeoutMinutes>>)
                    ELSE acomments
  /\ apc' = "done"
  /\ verdict' = [NoVerdict EXCEPT !.status = "timeout"]
  /\ arc' = {approval_exit("timeout").rc}
  /\ approvedOut' = approval_exit("timeout").approved
  /\ UNCHANGED <<now, trigger_timestamp, team_members, botLogin, elapsed_minutes,
                 warned_unauthorized_approvals, warned_unauthorized_rejections,
                 considered, validatorStarted>>
  /\ UNCHANGED notApproval

\* comments people have posted since the request was triggered
HumanCount ==
  Cardinality({k \in 1..Len(acomments) :
                 acomments[k].kind = "human" /\ acomments[k].createdAt >= trigger_timestamp})

\* somebody comments on the originator
PostComment ==
  /\ apc = "polling"
  /\ HumanCount < MaxHumanComments
  /\ \E a \in Humans, b \in HumanBodies :
       acomments' = Append(acomments, [id |-> Len(acomments) + 1, author |-> a,
                                       body |-> b, createdAt |-> now, kind |-> "human",
                                       about |-> None])
  /\ UNCHANGED <<now, trigger_timestamp, team_members, botLogin, apc, elapsed_minutes,
                 warned_unauthorized_approvals, warned_unauthorized_rejections,
                 verdict, considered, arc, approvedOut, validatorStarted>>
  /\ UNCHANGED notApproval

\* The workflow runs validation and merging only after a successful approval step
StartValidator ==
  /\ apc = "done"
  /\ arc = {0}
  /\ ~validatorStarted
  /\ validatorStarted' = TRUE
  /\ UNCHANGED <<acomments, now, trigger_timestamp, team_members, botLogin, apc,
                 elapsed_minutes, warned_unauthorized_approvals,
                 warned_unauthorized_rejections, verdict, considered, arc, approvedOut>>
  /\ UNCHANGED notApproval

TriggerTs == 5
\* an approval a member gave before this request was triggered
StaleComments ==
  <<[id |-> 1, author |-> "alice", body |-> {"approved"}, createdAt |-> TriggerTs - 1,
     kind |-> "human", about |-> None]>>

ApprovalStart ==
  /\ trigger_timestamp = TriggerTs
  /\ now = TriggerTs
  /\ acomments = StaleComments
  /\ team_members \in {{}, Members}
  /\ botLogin \in AutomationLogins
  /\ apc = "polling"
  /\ elapsed_minutes = 0
  /\ warned_unauthorized_approvals = {}
  /\ warned_unauthorized_rejections = {}
  /\ verdict = NoVerdict
  /\ considered = {}
  /\ arc = {}
  /\ approvedOut = "unset"
  /\ validatorStarted = FALSE

ApprovalOff ==
  /\ trigger_timestamp = TriggerTs
  /\ now = TriggerTs
  /\ acomments = <<>>
  /\ team_members = {}
  /\ botLogin = "github-actions[bot]"
  /\ apc = "off"
  /\ elapsed_minutes = 0
  /\ warned_unauthorized_approvals = {}
  /\ warned_unauthorized_rejections = {}
  /\ verdict = NoVerdict
  /\ considered = {}
  /\ arc = {}
  /\ approvedOut = "unset"
  /\ validatorStarted = FALSE

-----------------------------------------------------------------------------
(* Validator and merge pipeline: validate_prs.py, merge_prs_sequentially.py *)

MaxStartupPolls == 2     \* MAX_STARTUP_WAIT in units of the 5 s check interval
MaxCiPolls == 2          \* MAX_WAIT_SECONDS in units of CHECK_INTERVAL

\* Request bodies the extractor accepts (^[\d,\s]+$), split at the commas
Requests ==
  { <<str(12)>>,
    <<str(7), str(12)>>,
    <<str(12), str(7)>>,
    <<str(12), str(12)>>,
    <<<<>>, str(7)>>,
    <<<<>>, <<>>>> }

\* validate_prs.parse_pr_numbers: the non-empty fields, in order
parse_pr_numbers(fields) == SelectSeq(fields, LAMBDA f : f # <<>>)

DefaultBranch == "main"
PrInfos ==
  [ok : BOOLEAN, baseRefName : {"main", "feature"},
   mergeable : {"MERGEABLE", "CONFLICTING", "UNKNOWN"},
   reviews : {<<>>, <<"APPROVED">>, <<"CHANGES_REQUESTED", "APPROVED">>,
              <<"APPROVED", "APPROVED">>},
   statusCheckRollup : {<<>>, <<"SUCCESS">>, <<"SUCCESS", "PENDING">>}]

\* the snapshots a whole run is exercised with
PipelinePrInfos ==
  {i \in PrInfos : /\ Len(i.reviews) <= 1
                   /\ i.statusCheckRollup # <<>>}

RECURSIVE SubSeqAt(_, _)
\* the elements of s at the positions in S, in order
SubSeqAt(s, S) ==
  IF s = <<>> THEN <<>>
  ELSE LET n    == Len(s)
           rest == SubSeqAt(SubSeq(s, 1, n - 1), S)
       IN IF n \in S THEN Append(rest, s[n]) ELSE rest

\* validate_prs.count_approvals
count_approvals(reviews) ==
  Cardinality({k \in 1..Len(reviews) : reviews[k] = "APPROVED"})

get_failing_checks_failure_only(status_checks) ==
  SelectSeq(status_checks, LAMBDA state : state = "FAILURE")

\* validate_prs.get_failing_checks
get_failing_checks(status_checks) ==
  SelectSeq(status_checks, LAMBDA state : state \notin {"SUCCESS"})

\* validate_pr: failure_reasons for the snapshot of one PR, in the order added
validate_pr_reasons(pr_info, state, required_approvals) ==
  IF ~pr_info.ok THEN <<"Failed to retrieve PR information">>
  ELSE IF state # "OPEN" THEN <<"PR is not open">>
  ELSE (IF pr_info.baseRefName # DefaultBranch THEN <<"Does not target">> ELSE <<>>)
       \o (IF pr_info.mergeable = "CONFLICTING" THEN <<"Has merge conflicts">> ELSE <<>>)
       \o (IF count_approvals(pr_info.reviews) < required_approvals
           THEN <<"Has too few approvals">> ELSE <<>>)
       \o (IF get_failing_checks(pr_info.statusCheckRollup) # <<>>
           THEN <<"Has failing/missing checks">> ELSE <<>>)

\* validate_pr: is_mergeable for the snapshot of one PR
validate_pr(pr_info, state, required_approvals) ==
  validate_pr_reasons(pr_info, state, required_approvals) = <<>>

\* merge_prs_sequentially.parse_mergeable_prs
parse_mergeable_prs(pr_strings) ==
  IF \A k \in 1..Len(pr_strings) : IsDigits(pr_strings[k])
  THEN SortSeq([k \in 1..Len(pr_strings) |-> int(pr_strings[k])], LAMBDA a, b : a < b)
  ELSE <<>>

\* GitHubUtils.update_pr_branch: gh pr update-branch with check=False
update_pr_branch(platformOk) == run_gh_command(platformOk, FALSE)

\* GitHubUtils.get_comment_timestamp: created_at of one comment
get_comment_timestamp(tsOk, created_at) ==
  [success |-> tsOk, created_at |-> IF tsOk THEN created_at ELSE None]

\* merge_prs_sequentially.trigger_ci_and_get_timestamp; "" is None here
trigger_ci_and_get_timestamp(commentOk, tsOk) ==
  IF ~run_gh_command(commentOk, FALSE) THEN None
  ELSE IF ~commentOk THEN None          \* no issuecomment-<id> in the output
  ELSE IF ~get_comment_timestamp(tsOk, pnow).success THEN None
  ELSE get_comment_timestamp(tsOk, pnow).created_at

is_at_or_before_trigger_strict(comment_time, trigger_datetime) == comment_time < trigger_datetime

\* merge_prs_sequentially.py:185  comment_time <= trigger_datetime -> skip
is_at_or_before_trigger(comment_time, trigger_datetime) == comment_time <= trigger_datetime

\* comment bodies by the phrases the loop looks for; the digits that follow
\* "actions/runs/" are the run field of the comment, None when none follow
CiStartedBody == {"CI job started", "actions/runs/"}
CiBodies == {CiStartedBody, {"CI job started"}}

\* re.search(r'actions/runs/(\d+)', comment_body)
run_id_match(comment) ==
  IF "actions/runs/" \in comment.body /\ comment.run # None
  THEN str(comment.run) ELSE <<>>

ci_started_matches_any_body(pr) ==
  {k \in 1..Len(prComments) :
     /\ prComments[k].pr = pr
     /\ ~is_at_or_before_trigger(prComments[k].createdAt, ptrigger)}

\* the for loop of wait_for_ci_job_started_comment: the comments that count
ci_started_matches(pr) ==
  {k \in 1..Len(prComments) :
     /\ prComments[k].pr = pr
     /\ ~is_at_or_before_trigger(prComments[k].createdAt, ptrigger)
     /\ "CI job started" \in prComments[k].body
     /\ "actions/runs/" \in prComments[k].body
     /\ run_id_match(prComments[k]) # <<>>}

first_match(S) == CHOOSE k \in S : \A j \in S : k <= j

\* main, after wait_for_workflow_run_completion: where a CI result leads
after_ci(ci_result) ==
  IF ci_result = "failed" THEN "failed_ci"
  ELSE IF ci_result = "timeout" THEN "timeout"
  ELSE IF ci_result = "startup_timeout" THEN "startup_timeout"
  ELSE "merge"

NoBuckets ==
  [merged |-> <<>>, failed_update |-> <<>>, failed_ci |-> <<>>, timeout |-> <<>>,
   failed_merge |-> <<>>, startup_timeout |-> <<>>]

Current == pr_numbers[pidx]

\* main, "Set outputs": every list as a comma-separated string
set_github_outputs(lists) == {[name \in DOMAIN lists |-> join(lists[name])]}

Bucket_stop_on_failure(name) ==
  /\ buckets' = [buckets EXCEPT ![name] = Append(@, str(Current))]
  /\ IF pidx < Len(pr_numbers) /\ name = "merged"
     THEN /\ pidx' = pidx + 1
          /\ ppc' = "update"
          /\ UNCHANGED github_output
     ELSE /\ ppc' = "done"
          /\ github_output' = set_github_outputs(buckets')
          /\ UNCHANGED pidx

\* append the candidate in process to a bucket and go to the next one
Bucket(name) ==
  /\ buckets' = [buckets EXCEPT ![name] = Append(@, str(Current))]
  /\ IF pidx < Len(pr_numbers)
     THEN /\ pidx' = pidx + 1
          /\ ppc' = "update"
          /\ UNCHANGED github_output
     ELSE /\ ppc' = "done"
          /\ github_output' = set_github_outputs(buckets')
          /\ UNCHANGED pidx

\* validate_prs.main
ValidateMain ==
  /\ ppc = "validate"
  /\ LET prs == parse_pr_numbers(request)
     IN \E infos \in [1..Len(prs) -> PipelinePrInfos], required_approvals \in 1..2 :
          LET Good(k) == validate_pr(infos[k], prState[int(prs[k])], required_approvals)
          IN /\ mergeable_prs' = SubSeqAt(prs, {k \in 1..Len(prs) : Good(k)})
             /\ unmergeable_prs' = SubSeqAt(prs, {k \in 1..Len(prs) : ~Good(k)})
  /\ ppc' = "merge_start"
  /\ UNCHANGED <<request, pr_numbers, pidx, buckets, github_output, ptrigger, wait_time, run_id,
                 prComments, pnow, ciRuns, ciPending, prState, rebaseOk, started,
                 mergeCalls, signals>>
  /\ UNCHANGED notPipeline

\* merge_prs_sequentially.main up to the loop
MergeMainStart ==
  /\ ppc = "merge_start"
  /\ pr_numbers' = parse_mergeable_prs(mergeable_prs)
  /\ buckets' = NoBuckets
  /\ IF pr_numbers' = <<>>
     THEN /\ ppc' = "done"
          /\ github_output' = set_github_outputs(NoBuckets)
          /\ UNCHANGED pidx
     ELSE /\ ppc' = "update"
          /\ pidx' = 1
          /\ UNCHANGED github_output
  /\ UNCHANGED <<request, mergeable_prs, unmergeable_prs, ptrigger, wait_time, run_id,
                 prComments, pnow, ciRuns, ciPending, prState, rebaseOk, started,
                 mergeCalls, signals>>
  /\ UNCHANGED notPipeline

\* Step 1: update_pr_branch
UpdatePrBranch ==
  /\ ppc = "update"
  /\ started' = Append(started, Current)
  /\ \E platformOk \in BOOLEAN :
       /\ rebaseOk' = platformOk
       /\ IF ~update_pr_branch(platformOk)
          THEN Bucket("failed_update")
          ELSE ppc' = "trigger" /\ UNCHANGED <<buckets, github_output, pidx>>
  /\ UNCHANGED <<request, mergeable_prs, unmergeable_prs, pr_numbers, ptrigger, wait_time,
                 run_id, prComments, pnow, ciRuns, ciPending, prState, mergeCalls, signals>>
  /\ UNCHANGED notPipeline

\* Step 2: trigger_ci_and_get_timestamp
TriggerCi ==
  /\ ppc = "trigger"
  /\ \E commentOk \in BOOLEAN, tsOk \in BOOLEAN :
       LET ts == trigger_ci_and_get_timestamp(commentOk, tsOk)
       IN /\ ciPending' = IF commentOk THEN Current ELSE ciPending
          /\ IF ts = None
             THEN Bucket("failed_update") /\ UNCHANGED <<ptrigger, wait_time>>
             ELSE /\ ptrigger' = ts
                  /\ wait_time' = 0
                  /\ ppc' = "wait_start"
                  /\ UNCHANGED <<buckets, github_output, pidx>>
  /\ UNCHANGED <<request, mergeable_prs, unmergeable_prs, pr_numbers, run_id, prComments,
                 pnow, ciRuns, prState, rebaseOk, started, mergeCalls, signals>>
  /\ UNCHANGED notPipeline

\* Step 3: one pass of the while loop of wait_for_ci_job_started_comment
PollCiStarted ==
  /\ ppc = "wait_start"
  /\ IF wait_time < MaxStartupPolls
     THEN \E listOk \in BOOLEAN :
            IF listOk /\ ci_started_matches(Current) # {}
            THEN LET c == prComments[first_match(ci_started_matches(Current))]
                 IN /\ run_id' = IF run_id_match(c) = <<>> THEN None
                                 ELSE int(run_id_match(c))
                    /\ signals' = signals \cup {[createdAt |-> c.createdAt, trigger |-> ptrigger]}
                    /\ ppc' = "wait_ci"
                    /\ wait_time' = 0
                    /\ UNCHANGED <<buckets, github_output, pidx, pnow>>
            ELSE /\ wait_time' = wait_time + 1
                 /\ pnow' = pnow + 1
                 /\ UNCHANGED <<buckets, github_output, pidx, ppc, run_id, signals>>
     ELSE Bucket("startup_timeout") /\ UNCHANGED <<wait_time, pnow, run_id, signals>>
  /\ UNCHANGED <<request, mergeable_prs, unmergeable_prs, pr_numbers, ptrigger, prComments,
                 ciRuns, ciPending, prState, rebaseOk, started, mergeCalls>>
  /\ UNCHANGED notPipeline

\* what gh run view can print for a poll: the status of the run, a status
\* the loop does not know, text that does not parse, or nothing (the command
\* failed)
RunStatusAnswers == {"status", "requested", "not json", ""}

\* gh run view --json status,conclusion,workflowName for a run
get_workflow_run_status(run, answer) ==
  [success |-> run_gh_command(answer # "", FALSE),
   parsed  |-> answer \in {"status", "requested"},
   status  |-> IF answer = "requested" THEN "requested"
               ELSE IF ciRuns[run] = "in_progress" THEN "in_progress" ELSE "completed",
   conclusion |-> IF answer = "status" /\ ciRuns[run] # "in_progress"
                  THEN ciRuns[run] ELSE ""]

workflow_run_poll_any_completed(result) ==
  IF ~result.success \/ ~result.parsed THEN ""
  ELSE IF result.status = "completed" THEN "success"
  ELSE ""

\* the body of the while loop of wait_for_workflow_run_completion: what one
\* poll returns, "" when the loop goes on
workflow_run_poll(result) ==
  IF ~result.success \/ ~result.parsed THEN ""
  ELSE IF result.status = "completed"
       THEN IF result.conclusion = "success" THEN "success" ELSE "failed"
  ELSE ""

\* Step 4: one pass of the while loop of wait_for_workflow_run_completion
PollWorkflowRun ==
  /\ ppc = "wait_ci"
  /\ IF wait_time < MaxCiPolls
     THEN \E answer \in RunStatusAnswers :
            LET ci_result == workflow_run_poll(get_workflow_run_status(run_id, answer))
            IN IF ci_result # ""
               THEN IF after_ci(ci_result) = "merge"
                    THEN ppc' = "merge" /\ UNCHANGED <<buckets, github_output, pidx, wait_time, pnow>>
                    ELSE Bucket(after_ci(ci_result)) /\ UNCHANGED <<wait_time, pnow>>
               ELSE /\ wait_time' = wait_time + 1
                    /\ pnow' = pnow + 1
                    /\ UNCHANGED <<buckets, github_output, pidx, ppc>>
     ELSE Bucket(after_ci("timeout")) /\ UNCHANGED <<wait_time, pnow>>
  /\ UNCHANGED <<request, mergeable_prs, unmergeable_prs, pr_numbers, ptrigger, run_id,
                 prComments, ciRuns, ciPending, prState, rebaseOk, started, mergeCalls,
                 signals>>
  /\ UNCHANGED notPipeline

\* what the platform can answer to the calls of merge_pr: the state of the
\* PR and whether it conflicts, the texts gh pr view prints for the details,
\* the branch name and the final state, the branch protection answer and
\* whether the merge command succeeded
MergeInputs ==
  [state : {"OPEN", "MERGED", "CLOSED"}, conflicting : BOOLEAN,
   details : {"json", "not json", ""}, author : {"", "dev"},
   branch : {"json", "json without headRefName", ""},
   protection : ProtectionResponses,
   mergeOk : BOOLEAN, verify : {"json", "not json", ""}]

\* the answers a whole run is exercised with
PipelineMergeInputs ==
  {i \in MergeInputs : /\ i.author = "dev"
                       /\ i.branch = "json"
                       /\ i.protection.exitOk /\ i.protection.value = ProtectionDoc(2)
                       /\ i.verify # "" /\ i.details # "not json"}

merge_pr_ignores_conflict(answers) ==
  LET fetched == answers.details = "json"
      stopped == fetched /\ answers.state # "OPEN"
      branch_name == IF answers.branch = "json" THEN "feature" ELSE "unknown-branch"
      should_delete_branch ==
        IF branch_name # "unknown-branch"
        THEN ~is_branch_protected(answers.protection) ELSE FALSE
      lands   == answers.mergeOk /\ ~answers.conflicting /\ answers.state = "OPEN"
      final   == IF lands THEN "MERGED" ELSE answers.state
  IN IF stopped
     THEN [result |-> FALSE, merge_called |-> FALSE, delete_branch |-> FALSE,
           conflict_comment |-> FALSE, final |-> answers.state]
     ELSE [result |-> IF ~run_gh_command(answers.mergeOk, FALSE) THEN FALSE
                      ELSE IF answers.verify = "json" THEN final = "MERGED"
                      ELSE TRUE,
           merge_called |-> TRUE, delete_branch |-> should_delete_branch,
           conflict_comment |-> FALSE, final |-> final]

merge_pr_stops_when_unreadable(answers) ==
  LET fetched == answers.details = "json"
      stopped == ~fetched \/ answers.state # "OPEN" \/ answers.conflicting
      branch_name == IF answers.branch = "json" THEN "feature" ELSE "unknown-branch"
      should_delete_branch ==
        IF branch_name # "unknown-branch"
        THEN ~is_branch_protected(answers.protection) ELSE FALSE
      lands   == answers.mergeOk /\ ~answers.conflicting /\ answers.state = "OPEN"
      final   == IF lands THEN "MERGED" ELSE answers.state
  IN IF stopped
     THEN [result |-> FALSE, merge_called |-> FALSE, delete_branch |-> FALSE,
           conflict_comment |-> fetched /\ answers.state = "OPEN" /\ answers.author # "",
           final |-> answers.state]
     ELSE [result |-> IF ~run_gh_command(answers.mergeOk, FALSE) THEN FALSE
                      ELSE IF answers.verify = "json" THEN final = "MERGED"
                      ELSE TRUE,
           merge_called |-> TRUE, delete_branch |-> should_delete_branch,
           conflict_comment |-> FALSE, final |-> final]

\* merge_prs_sequentially.merge_pr: every adapter call runs with check=False,
\* so a failed gh pr view shows as text that does not parse
merge_pr(answers) ==
  LET fetched == run_gh_command(answers.details = "json", FALSE)
                   /\ answers.details = "json"
      mergeable == IF answers.conflicting THEN "CONFLICTING" ELSE "MERGEABLE"
      stopped == fetched /\ (answers.state # "OPEN" \/ mergeable = "CONFLICTING")
      branch_name == IF answers.branch = "json" THEN "feature" ELSE "unknown-branch"
      should_delete_branch ==
        IF branch_name # "unknown-branch"
        THEN ~is_branch_protected(answers.protection) ELSE FALSE
      lands   == answers.mergeOk /\ ~answers.conflicting /\ answers.state = "OPEN"
      final   == IF lands THEN "MERGED" ELSE answers.state
  IN IF stopped
     THEN [result |-> FALSE, merge_called |-> FALSE, delete_branch |-> FALSE,
           conflict_comment |-> answers.state = "OPEN" /\ answers.author # "",
           final |-> answers.state]
     ELSE [result |-> IF ~run_gh_command(answers.mergeOk, FALSE) THEN FALSE
                      ELSE IF answers.verify = "json" THEN final = "MERGED"
                      ELSE TRUE,
           merge_called |-> TRUE, delete_branch |-> should_delete_branch,
           conflict_comment |-> FALSE, final |-> final]

\* main, Step 5: the bucket for what merge_pr returned
merge_bucket(result) == IF result THEN "merged" ELSE "failed_merge"

\* Step 5: merge_pr
MergePr ==
  /\ ppc = "merge"
  /\ \E answers \in PipelineMergeInputs :
       LET done == merge_pr(answers) IN
       /\ answers.state = prState[Current]
       /\ mergeCalls' = IF done.merge_called
                        THEN mergeCalls \cup
                               {[pr |-> Current, idx |-> pidx, rebased |-> rebaseOk,
                                 ci |-> ciRuns[run_id], run |-> run_id]}
                        ELSE mergeCalls
       /\ prState' = [prState EXCEPT ![Current] = done.final]
       /\ Bucket(merge_bucket(done.result))
       /\ pnow' = IF done.result THEN pnow + 2 ELSE pnow
  /\ UNCHANGED <<request, mergeable_prs, unmergeable_prs, pr_numbers, ptrigger, wait_time,
                 run_id, prComments, ciRuns, ciPending, rebaseOk, started, signals>>
  /\ UNCHANGED notPipeline

\* The host cancels the run while the loop of main is at work: the process
\* ends where it is
Cancel ==
  /\ ppc \in {"update", "trigger", "wait_start", "wait_ci", "merge"}
  /\ ppc' = "cancelled"
  /\ UNCHANGED <<request, mergeable_prs, unmergeable_prs, pr_numbers, pidx, buckets,
                 github_output, ptrigger, wait_time, run_id, prComments, pnow, ciRuns,
                 ciPending, prState, rebaseOk, started, mergeCalls, signals>>
  /\ UNCHANGED notPipeline

NewRun == 100 + Len(prComments)

\* The CI system picks the trigger comment up and comments on the PR: with
\* the link to the run it started, or without a link and without a run
CiStart ==
  /\ ciPending # None
  /\ \E body \in CiBodies :
       LET linked == "actions/runs/" \in body IN
       /\ prComments' = Append(prComments,
                               [pr |-> ciPending, createdAt |-> pnow, body |-> body,
                                run |-> IF linked THEN NewRun ELSE None])
       /\ ciRuns' = IF linked THEN ciRuns @@ (NewRun :> "in_progress") ELSE ciRuns
  /\ ciPending' = None
  /\ UNCHANGED <<request, ppc, mergeable_prs, unmergeable_prs, pr_numbers, pidx, buckets, github_output,
                 ptrigger, wait_time, run_id, pnow, prState, rebaseOk, started,
                 mergeCalls, signals>>
  /\ UNCHANGED notPipeline

\* A workflow run completes
CiFinish ==
  /\ \E r \in DOMAIN ciRuns, conclusion \in {"success", "failure"} :
       /\ ciRuns[r] = "in_progress"
       /\ ciRuns' = [ciRuns EXCEPT ![r] = conclusion]
  /\ UNCHANGED <<request, ppc, mergeable_prs, unmergeable_prs, pr_numbers, pidx, buckets, github_output,
                 ptrigger, wait_time, run_id, prComments, pnow, ciPending, prState,
                 rebaseOk, started, mergeCalls, signals>>
  /\ UNCHANGED notPipeline

StaleRun == 90
StalePrComments ==
  {<<>>, <<[pr |-> 12, createdAt |-> TriggerTs - 1, body |-> CiStartedBody,
            run |-> StaleRun]>>}

PipelineStart ==
  /\ request \in Requests
  /\ ppc = "validate"
  /\ mergeable_prs = <<>>
  /\ unmergeable_prs = <<>>
  /\ pr_numbers = <<>>
  /\ pidx = 0
  /\ buckets = NoBuckets
  /\ github_output = {}
  /\ ptrigger = None
  /\ wait_time = 0
  /\ run_id = None
  /\ prComments \in StalePrComments
  /\ pnow = TriggerTs
  /\ ciRuns = (StaleRun :> "success")
  /\ ciPending = None
  /\ prState = [n \in {7, 12} |-> "OPEN"]
  /\ rebaseOk = FALSE
  /\ started = <<>>
  /\ mergeCalls = {}
  /\ signals = {}

PipelineOff ==
  /\ request = <<>>
  /\ ppc = "off"
  /\ mergeable_prs = <<>>
  /\ unmergeable_prs = <<>>
  /\ pr_numbers = <<>>
  /\ pidx = 0
  /\ buckets = NoBuckets
  /\ github_output = {}
  /\ ptrigger = None
  /\ wait_time = 0
  /\ run_id = None
  /\ prComments = <<>>
  /\ pnow = TriggerTs
  /\ ciRuns = (StaleRun :> "success")
  /\ ciPending = None
  /\ prState = [n \in {7, 12} |-> "OPEN"]
  /\ rebaseOk = FALSE
  /\ started = <<>>
  /\ mergeCalls = {}
  /\ signals = {}

-----------------------------------------------------------------------------
(* Reporter: generate_summary.py *)

Range(s) == {s[k] : k \in 1..Len(s)}

\* parse_comma_separated of parse_environment_data
parse_comma_separated(value) ==
  LET fields == split(value)
      kept   == SelectSeq(fields, LAMBDA f : strip(f) # <<>>)
  IN [k \in 1..Len(kept) |-> strip(kept[k])]

\* os.getenv(name, ''): the step outputs of the pipeline as the reporter's
\* environment; an output that was never written is the empty string
getenv(name) ==
  IF github_output = {} THEN <<>> ELSE (CHOOSE o \in github_output : TRUE)[name]

\* parse_environment_data: what the reporter reads from its environment
parse_environment_data ==
  [total_requested |-> Len(parse_comma_separated(join(request))),
   merged          |-> parse_comma_separated(getenv("merged")),
   unmergeable     |-> unmergeable_prs,
   failed_update   |-> parse_comma_separated(getenv("failed_update")),
   failed_ci       |-> parse_comma_separated(getenv("failed_ci")),
   timeout         |-> parse_comma_separated(getenv("timeout")),
   startup_timeout |-> parse_comma_separated(getenv("startup_timeout")),
   failed_merge    |-> parse_comma_separated(getenv("failed_merge"))]

FailureCategories ==
  <<"unmergeable", "failed_update", "failed_ci", "timeout", "startup_timeout",
    "failed_merge">>

should_close_when_requested(data) == data.total_requested > 0

\* generate_summary.should_close_issue
should_close_issue(data) ==
  IF data.total_requested = 0 THEN FALSE
  ELSE LET total_processed ==
             Len(data.merged) + Len(data.unmergeable) + Len(data.failed_update)
             + Len(data.failed_ci) + Len(data.timeout) + Len(data.startup_timeout)
             + Len(data.failed_merge)
       IN total_processed > 0

\* what the platform does with the calls of one reporter run: everything
\* goes through, or one of the summary comment, the close and the author
\* lookups fails
ReporterAnswers ==
  {[summaryOk |-> TRUE,  closeOk |-> TRUE,  authorOk |-> TRUE],
   [summaryOk |-> FALSE, closeOk |-> TRUE,  authorOk |-> TRUE],
   [summaryOk |-> TRUE,  closeOk |-> FALSE, authorOk |-> TRUE],
   [summaryOk |-> TRUE,  closeOk |-> TRUE,  authorOk |-> FALSE]}

PrAuthor == "dev"                    \* login of the author of the candidates

\* GitHubUtils.get_pr_author: gh pr view --jq .author.login with check=False;
\* a failed command prints nothing to stdout
get_pr_author(authorOk) ==
  IF run_gh_command(authorOk, FALSE)
  THEN [success |-> TRUE, message |-> IF authorOk THEN PrAuthor ELSE ""]
  ELSE [success |-> FALSE, message |-> "unknown"]

\* GitHubUtils.comment_on_pr with check=False
comment_on_pr(platformOk) == [success |-> run_gh_command(platformOk, FALSE)]

\* post_summary_to_original_issue: what it prints and whether it raises
post_summary_to_original_issue(summaryOk) ==
  IF comment_on_pr(summaryOk).success
  THEN [raised |-> FALSE, printed |-> "Successfully posted summary"]
  ELSE [raised |-> TRUE, printed |-> "Failed to post summary"]

\* comment_on_failed_prs: one comment call per entry of every failure
\* category, addressed to what get_pr_author returned; nth is the position of
\* the entry in its list
FailureComments(data, authorOk) ==
  {[op |-> "comment_on_pr", target |-> data[cat][k], category |-> cat, nth |-> k,
    author |-> get_pr_author(authorOk).message] :
     <<cat, k>> \in {<<c, j>> \in Range(FailureCategories) \X (1..4) :
                       j <= Len(data[c])}}

\* The approval loop ended with rejected or timeout: nothing is validated or
\* merged, and the reporter runs on empty results
SkipAfterRejection ==
  /\ ppc = "validate"
  /\ ppc' = "done"
  /\ UNCHANGED <<request, mergeable_prs, unmergeable_prs, pr_numbers, pidx, buckets, github_output,
                 ptrigger, wait_time, run_id, prComments, pnow, ciRuns, ciPending,
                 prState, rebaseOk, started, mergeCalls, signals>>
  /\ UNCHANGED notPipeline

\* generate_summary.main
GenerateSummary ==
  /\ ppc = "done"
  /\ \E answers \in ReporterAnswers :
       LET data         == parse_environment_data
           should_close == should_close_issue(data)
           summary      == [op |-> "summary_comment", target |-> <<>>,
                            category |-> IF should_close THEN "will_close" ELSE "stays_open"]
           posted       == post_summary_to_original_issue(answers.summaryOk)
           printed      == [op |-> "print", target |-> <<>>, category |-> posted.printed]
           refused      == IF answers.summaryOk THEN {}
                           ELSE {[op |-> "refused", target |-> <<>>,
                                  category |-> "summary_comment"]}
           close        == [op |-> "close_issue_with_comment", target |-> <<>>,
                            category |-> "originator"]
       IN IF posted.raised
          THEN /\ reportCalls' = {summary, printed} \cup refused
               /\ rrc' = {1}
               /\ UNCHANGED originatorOpen
          ELSE /\ reportCalls' = {summary, printed} \cup refused
                                   \cup (IF should_close THEN {close} ELSE {})
                                   \cup FailureComments(data, answers.authorOk)
               /\ originatorOpen' = IF should_close /\ run_gh_command(answers.closeOk, TRUE)
                                    THEN FALSE ELSE originatorOpen
               /\ rrc' = {0}
  /\ ppc' = "reported"
  /\ UNCHANGED <<request, mergeable_prs, unmergeable_prs, pr_numbers, pidx, buckets, github_output,
                 ptrigger, wait_time, run_id, prComments, pnow, ciRuns, ciPending,
                 prState, rebaseOk, started, mergeCalls, signals>>
  /\ UNCHANGED <<lockVars, apprVars, valVars, mergeVars, relVars, raceVars>>

ReporterIdle ==
  /\ originatorOpen = TRUE
  /\ reportCalls = {}
  /\ rrc = {}

-----------------------------------------------------------------------------
(* Required approvals and validation of one candidate: validate_prs.py *)

\* str.lower() on the letters the override texts use
lower(text) == [k \in 1..Len(text) |-> IF text[k] = "N" THEN "n" ELSE text[k]]

NoResponse == {<<"n", "o", "n", "e">>,
               <<"_", "n", "o", " ", "r", "e", "s", "p", "o", "n", "s", "e", "_">>}

\* texts a submitter can put into the override field
OverrideTexts ==
  {<<>>, str(0), str(2), <<"-">> \o str(1), <<"N", "o", "n", "e">>, <<"x">>}

\* extract_pr_info_from_issue_body, the required-approvals part: the legacy
\* line "Required approvals override: <text>" or the template section; the
\* empty set is None
extract_required_approvals(form, text) ==
  IF form = "legacy"
  THEN IF strip(text) # <<>> /\ lower(strip(text)) \notin NoResponse
       THEN {strip(text)} ELSE {}
  ELSE IF strip(text) # <<>> /\ lower(strip(text)) \notin NoResponse /\ IsDigits(strip(text))
       THEN {strip(text)} ELSE {}

\* Python int(text): an optional sign and decimal digits, else ValueError
py_int(text) ==
  LET t      == strip(text)
      signed == t # <<>> /\ Head(t) \in {"-", "+"}
      digits == IF signed THEN Tail(t) ELSE t
  IN IF IsDigits(digits)
     THEN [ok |-> TRUE, value |-> IF signed /\ Head(t) = "-" THEN 0 - int(digits)
                                  ELSE int(digits)]
     ELSE [ok |-> FALSE, value |-> 0]

\* validate_prs.get_required_approvals
get_required_approvals(manual_approvals, response) ==
  LET result == get_branch_protection(response)
      parsed == json_loads(result.stdout)
      protection_data == IF result.stdout.text = "" THEN EmptyDict ELSE parsed.value
      required_approvals ==
        Get(Get(protection_data, "required_pull_request_reviews", EmptyDict),
            "required_approving_review_count", 0)
  IN IF manual_approvals # <<>> /\ strip(manual_approvals) # <<>>
        /\ py_int(strip(manual_approvals)).ok
     THEN py_int(strip(manual_approvals)).value
     ELSE IF ~result.success THEN 1
     ELSE IF result.stdout.text # "" /\ ~parsed.ok THEN 1
     ELSE IF required_approvals = 0 /\ DOMAIN protection_data = {} THEN 1
     ELSE required_approvals

\* the override leaves the extractor and reaches the validator's environment
ExtractOverride ==
  /\ vpc = "extract"
  /\ LET required_approvals == extract_required_approvals(override.form, override.text)
     IN manual' = IF required_approvals = {} THEN <<>>
                  ELSE CHOOSE t \in required_approvals : TRUE
  /\ vpc' = "approvals"
  /\ UNCHANGED <<override, protection, vrequired, vsnapshot, vresult>>
  /\ UNCHANGED notValidator

\* validate_prs.main: Determine required approvals
GetRequiredApprovals ==
  /\ vpc = "approvals"
  /\ \E response \in ProtectionResponses :
       /\ protection' = {response}
       /\ vrequired' = {get_required_approvals(manual, response)}
  /\ vpc' = "validate"
  /\ UNCHANGED <<override, manual, vsnapshot, vresult>>
  /\ UNCHANGED notValidator

\* validate_prs.main: validate_pr for one candidate
ValidatePr ==
  /\ vpc = "validate"
  /\ \E pr_info \in PrInfos, state \in {"OPEN", "MERGED", "CLOSED"},
        required_approvals \in vrequired :
       /\ vsnapshot' = {[info |-> pr_info, state |-> state]}
       /\ vresult' = {[is_mergeable |-> validate_pr(pr_info, state, required_approvals),
                       failure_reasons |->
                         validate_pr_reasons(pr_info, state, required_approvals)]}
  /\ vpc' = "done"
  /\ UNCHANGED <<override, manual, protection, vrequired>>
  /\ UNCHANGED notValidator

ValidatorStart ==
  /\ vpc = "extract"
  /\ override \in [form : {"legacy", "template"}, text : OverrideTexts]
  /\ manual = <<>>
  /\ protection = {}
  /\ vrequired = {}
  /\ vsnapshot = {}
  /\ vresult = {}

ValidatorOff ==
  /\ vpc = "off"
  /\ override = [form |-> "legacy", text |-> <<>>]
  /\ manual = <<>>
  /\ protection = {}
  /\ vrequired = {}
  /\ vsnapshot = {}
  /\ vresult = {}

-----------------------------------------------------------------------------
(* Step E on one candidate: merge_pr with every answer of the platform *)

\* main, Step 5 for one candidate
MergeOne ==
  /\ mpc = "merge"
  /\ \E answers \in MergeInputs :
       LET done == merge_pr(answers) IN
       /\ minput' = {answers}
       /\ moutput' = {[done |-> done, bucket |-> merge_bucket(done.result)]}
  /\ mpc' = "done"
  /\ UNCHANGED notMerge

MergeStart ==
  /\ mpc = "merge"
  /\ minput = {}
  /\ moutput = {}

MergeOff ==
  /\ mpc = "off"
  /\ minput = {}
  /\ moutput = {}

-----------------------------------------------------------------------------
(* The release candidate: validate_prs.main validates it, the workflow runs *)
(* merge_release_pr.py after the step that merges the regular candidates    *)

MaxRegular == 2                      \* regular candidates of the run
ReleaseInputs == {<<>>, <<" ">>, <<"7">>}
ReleaseDetails == {"json", "json without headRefName", "not json", ""}

\* validate_prs.main: the release PR is validated when RELEASE_PR has more than
\* blanks; the verdict is printed and is no output of the step
ValidateRelease ==
  /\ relpc = "validate"
  /\ IF release_pr # <<>> /\ strip(release_pr) # <<>>
     THEN \E pr_info \in PrInfos, required_approvals \in 1..2 :
            /\ pr_info.mergeable = relInfo.mergeable
            /\ relValidation' = {validate_pr(pr_info, relInfo.state, required_approvals)}
     ELSE relValidation' = {}
  /\ relpc' = "regular"
  /\ UNCHANGED <<release_pr, relRegular, relInfo, relCall, relrc>>
  /\ UNCHANGED notRelease

\* merge_prs_sequentially.main: one more regular candidate is put in its bucket
RegularOutcome ==
  /\ relpc = "regular"
  /\ relRegular > 0
  /\ relRegular' = relRegular - 1
  /\ UNCHANGED <<relpc, release_pr, relInfo, relValidation, relCall, relrc>>
  /\ UNCHANGED notRelease

\* the workflow: the release step follows the merge step and runs when a
\* release PR was given; the outputs of the validation step (mergeable,
\* unmergeable, required_approvals, has_mergeable, has_unmergeable) say
\* nothing about the release PR
release_step_due(given) == given # <<>>

ReleaseGate ==
  /\ relpc = "regular"
  /\ relRegular = 0
  /\ relpc' = IF release_step_due(release_pr) THEN "release" ELSE "done"
  /\ UNCHANGED <<release_pr, relRegular, relInfo, relValidation, relCall, relrc>>
  /\ UNCHANGED notRelease

\* merge_release_pr.main up to the merge command: [rc, called, delete_branch]
merge_release_pr(details, response) ==
  LET result == [success |-> run_gh_command(details # "", FALSE), stdout |-> details]
      source_branch == IF result.stdout = "json" THEN "release" ELSE ""
  IN IF ~result.success THEN [rc |-> 1, called |-> FALSE, delete_branch |-> FALSE]
     ELSE IF result.stdout \in {"not json", ""}
       THEN [rc |-> 1, called |-> FALSE, delete_branch |-> FALSE]
     ELSE IF source_branch = ""
       THEN [rc |-> 1, called |-> FALSE, delete_branch |-> FALSE]
     ELSE [rc |-> 0, called |-> TRUE, delete_branch |-> ~is_branch_protected(response)]

\* the platform on gh pr merge --merge --admin: an open pull request without
\* conflicts is merged whatever its reviews and checks
release_merge_lands(mergeOk) ==
  /\ mergeOk
  /\ strip(release_pr) = release_pr /\ release_pr # <<>>
  /\ relInfo.state = "OPEN"
  /\ relInfo.mergeable # "CONFLICTING"

MergeReleasePr ==
  /\ relpc = "release"
  /\ \E details \in ReleaseDetails, response \in ProtectionResponses, mergeOk \in BOOLEAN :
       LET done   == merge_release_pr(details, response)
           landed == done.called /\ release_merge_lands(mergeOk)
       IN /\ relCall' = IF done.called
                        THEN {[delete_branch |-> done.delete_branch, landed |-> landed]}
                        ELSE {}
          /\ relInfo' = IF landed THEN [relInfo EXCEPT !.state = "MERGED"] ELSE relInfo
          /\ relrc' = {IF done.called /\ ~run_gh_command(mergeOk, FALSE) THEN 1 ELSE done.rc}
  /\ relpc' = "done"
  /\ UNCHANGED <<release_pr, relRegular, relValidation>>
  /\ UNCHANGED notRelease

ReleaseStart ==
  /\ relpc = "validate"
  /\ release_pr \in ReleaseInputs
  /\ relRegular = MaxRegular
  /\ relInfo \in [state : {"OPEN", "MERGED", "CLOSED"},
                  mergeable : {"MERGEABLE", "CONFLICTING", "UNKNOWN"}]
  /\ relValidation = {}
  /\ relCall = {}
  /\ relrc = {}

ReleaseOff ==
  /\ relpc = "off"
  /\ release_pr = <<>>
  /\ relRegular = 0
  /\ relInfo = [state |-> "OPEN", mergeable |-> "MERGEABLE"]
  /\ relValidation = {}
  /\ relCall = {}
  /\ relrc = {}

------------------------------------------------------------------------------
(* Two runs at Step E on the same candidate: merge_pr of each run, call by  *)
(* call, against the one pull request on the platform.  The candidate has   *)
(* no conflicts.                                                            *)

RaceDetails == {"json", "not json", ""}
RaceBranches == {"json", ""}
NotSeen == [at_refetch |-> "", details |-> "", merge_called |-> FALSE,
            delete_branch |-> FALSE, verify |-> ""]

\* merge_pr, the re-fetch before the merge: return False at once
merge_pr_stops(details, state, mergeable) ==
  LET result == [success |-> run_gh_command(details = "json", FALSE), stdout |-> details]
  IN /\ result.success
     /\ result.stdout = "json"
     /\ (state # "OPEN" \/ mergeable = "CONFLICTING")

\* merge_pr, should_delete_branch
merge_pr_should_delete_branch(branch, response) ==
  LET branch_name == IF branch = "json" THEN "feature" ELSE "unknown-branch"
  IN IF branch_name # "unknown-branch" THEN ~is_branch_protected(response) ELSE FALSE

\* merge_pr, the re-fetch after the merge call: what merge_pr returns
merge_pr_verified(verify, final_state) ==
  IF run_gh_command(verify = "json", FALSE) /\ verify = "json"
  THEN final_state = "MERGED"
  ELSE TRUE

\* get_pr_details(mergeable,state,author) of run r and what follows it at once
RaceRefetch(r) ==
  /\ racepc[r] = "refetch"
  /\ \E details \in RaceDetails :
       /\ raceSeen' = [raceSeen EXCEPT ![r].at_refetch = raceState, ![r].details = details]
       /\ IF merge_pr_stops(details, raceState, "MERGEABLE")
          THEN /\ racepc' = [racepc EXCEPT ![r] = "done"]
               /\ raceBucket' = [raceBucket EXCEPT ![r] = merge_bucket(FALSE)]
          ELSE /\ racepc' = [racepc EXCEPT ![r] = "call"]
               /\ UNCHANGED raceBucket
  /\ UNCHANGED <<raceState, raceMerges>>
  /\ UNCHANGED notRace

\* get_pr_branch_name, is_branch_protected and GitHubUtils.merge_pr of run r;
\* the platform merges an open pull request and refuses any other
RaceMergeCall(r) ==
  /\ racepc[r] = "call"
  /\ \E branch \in RaceBranches, response \in ProtectionResponses, mergeOk \in BOOLEAN :
       LET lands == mergeOk /\ raceState = "OPEN"
           success == run_gh_command(lands, FALSE)
       IN /\ raceSeen' = [raceSeen EXCEPT
                            ![r].merge_called = TRUE,
                            ![r].delete_branch =
                              merge_pr_should_delete_branch(branch, response)]
          /\ raceState' = IF lands THEN "MERGED" ELSE raceState
          /\ raceMerges' = IF lands THEN Append(raceMerges, r) ELSE raceMerges
          /\ IF ~success
             THEN /\ racepc' = [racepc EXCEPT ![r] = "done"]
                  /\ raceBucket' = [raceBucket EXCEPT ![r] = merge_bucket(FALSE)]
             ELSE /\ racepc' = [racepc EXCEPT ![r] = "verify"]
                  /\ UNCHANGED raceBucket
  /\ UNCHANGED notRace

\* get_pr_details(state) of run r after its merge call, and main's bucket
RaceVerify(r) ==
  /\ racepc[r] = "verify"
  /\ \E verify \in RaceDetails :
       /\ raceSeen' = [raceSeen EXCEPT ![r].verify = verify]
       /\ raceBucket' = [raceBucket EXCEPT
                           ![r] = merge_bucket(merge_pr_verified(verify, raceState))]
  /\ racepc' = [racepc EXCEPT ![r] = "done"]
  /\ UNCHANGED <<raceState, raceMerges>>
  /\ UNCHANGED notRace

RaceStart ==
  /\ racepc = [r \in Runs |-> "refetch"]
  /\ raceState = "OPEN"
  /\ raceMerges = <<>>
  /\ raceSeen = [r \in Runs |-> NotSeen]
  /\ raceBucket = [r \in Runs |-> ""]

RaceOff ==
  /\ racepc = [r \in Runs |-> "off"]
  /\ raceState = "OPEN"
  /\ raceMerges = <<>>
  /\ raceSeen = [r \in Runs |-> NotSeen]
  /\ raceBucket = [r \in Runs |-> ""]

------------------------------------------------------------------------------
(* Specifications *)

InitLock == LockStart /\ ApprovalOff /\ PipelineOff /\ ReporterIdle /\ ValidatorOff /\ MergeOff
  /\ ReleaseOff /\ RaceOff
NextLock ==
  \E r \in Runs :
    \/ StartRun(r)
    \/ CheckConsecutive(r)
    \/ CheckDuplicate(r)
    \/ InitializeRun(r)
    \/ ReleaseRun(r)
    \/ EndRun(r)
SpecLock == InitLock /\ [][NextLock]_vars

InitApproval == ApprovalStart /\ LockOff /\ PipelineOff /\ ReporterIdle /\ ValidatorOff /\ MergeOff
  /\ ReleaseOff /\ RaceOff
NextApproval ==
  \/ Poll
  \/ ApprovalTimeout
  \/ PostComment
  \/ StartValidator
SpecApproval == InitApproval /\ [][NextApproval]_vars

InitPipeline == PipelineStart /\ LockOff /\ ApprovalOff /\ ReporterIdle /\ ValidatorOff /\ MergeOff
  /\ ReleaseOff /\ RaceOff
NextPipeline ==
  \/ ValidateMain
  \/ MergeMainStart
  \/ UpdatePrBranch
  \/ TriggerCi
  \/ PollCiStarted
  \/ PollWorkflowRun
  \/ MergePr
  \/ CiStart
  \/ CiFinish
  \/ SkipAfterRejection
  \/ GenerateSummary
  \/ Cancel
SpecPipeline == InitPipeline /\ [][NextPipeline]_vars

\* the steps of the pipeline script itself; the runner executes the script to
\* its end, the CI system is under no obligation
PipelineScript ==
  \/ MergeMainStart
  \/ UpdatePrBranch
  \/ TriggerCi
  \/ PollCiStarted
  \/ PollWorkflowRun
  \/ MergePr
\* a run that the host does not cancel
NextPipelineFair ==
  \/ ValidateMain
  \/ MergeMainStart
  \/ UpdatePrBranch
  \/ TriggerCi
  \/ PollCiStarted
  \/ PollWorkflowRun
  \/ MergePr
  \/ CiStart
  \/ CiFinish
  \/ SkipAfterRejection
  \/ GenerateSummary
SpecPipelineFair ==
  InitPipeline /\ [][NextPipelineFair]_vars /\ WF_vars(PipelineScript)

InitValidator ==
  ValidatorStart /\ LockOff /\ ApprovalOff /\ PipelineOff /\ ReporterIdle /\ MergeOff
    /\ ReleaseOff /\ RaceOff
NextValidator ==
  \/ ExtractOverride
  \/ GetRequiredApprovals
  \/ ValidatePr
SpecValidator == InitValidator /\ [][NextValidator]_vars

InitMerge ==
  MergeStart /\ LockOff /\ ApprovalOff /\ PipelineOff /\ ReporterIdle /\ ValidatorOff
    /\ ReleaseOff /\ RaceOff
NextMerge == MergeOne
SpecMerge == InitMerge /\ [][NextMerge]_vars

\* the two consumers of timestamped comments, each on its own
InitRelease ==
  ReleaseStart /\ LockOff /\ ApprovalOff /\ PipelineOff /\ ReporterIdle /\ ValidatorOff
    /\ MergeOff /\ RaceOff
NextRelease ==
  \/ ValidateRelease
  \/ RegularOutcome
  \/ ReleaseGate
  \/ MergeReleasePr
SpecRelease == InitRelease /\ [][NextRelease]_vars

InitRace ==
  RaceStart /\ LockOff /\ ApprovalOff /\ PipelineOff /\ ReporterIdle /\ ValidatorOff
    /\ MergeOff /\ ReleaseOff
NextRace ==
  \E r \in Runs :
    \/ RaceRefetch(r)
    \/ RaceMergeCall(r)
    \/ RaceVerify(r)
SpecRace == InitRace /\ [][NextRace]_vars

InitSignals ==
  \/ InitApproval /\ botLogin = "github-actions[bot]"
  \/ InitPipeline
NextSignals ==
  \/ Poll
  \/ ApprovalTimeout
  \/ PostComment
  \/ StartValidator
  \/ ValidateMain
  \/ MergeMainStart
  \/ UpdatePrBranch
  \/ TriggerCi
  \/ PollCiStarted
  \/ PollWorkflowRun
  \/ MergePr
  \/ CiStart
  \/ CiFinish
  \/ SkipAfterRejection
  \/ GenerateSummary
  \/ Cancel
SpecSignals == InitSignals /\ [][NextSignals]_vars

-----------------------------------------------------------------------------
(* Properties *)

OpenItemsFor(o) == {t \in tracking : t.open /\ t.orig = o}
CallsOf(r) == {c \in calls : c.run = r}
Refused == {"refused_consec", "refused_dup"}
BucketNames == {"merged", "failed_update", "failed_ci", "timeout", "failed_merge",
                "startup_timeout", "unmergeable"}
BucketOf(name) == IF name = "unmergeable" THEN unmergeable_prs ELSE buckets[name]

C2_WorkOnlyAfterApproval ==
  /\ validatorStarted => verdict.status = "approved"
  /\ (apc = "done" /\ verdict.status \in {"rejected", "timeout"}) => ~validatorStarted

\* the loop has returned rejected and the run stopped there
C2_Witness ==
  /\ apc = "done"
  /\ verdict.status = "rejected"
  /\ arc = {1}
  /\ approvedOut = "false"
  /\ ~validatorStarted

\* C3: the approval loop returns approved or rejected only because of a
\* comment whose author is a member of the approver group, with the cached
\* member list and on the fallback path alike.
C3_OnlyMembersDecide ==
  verdict.status \in {"approved", "rejected"} => verdict.user \in Members

\* C4: every comment consumed as a signal, by the approval loop and by the
\* CI-start wait, was created strictly after the recorded trigger timestamp.
C4_SignalsStrictlyAfterTrigger ==
  /\ \A k \in 1..Len(acomments) :
       acomments[k].id \in considered => acomments[k].createdAt > trigger_timestamp
  /\ verdict.status \in {"approved", "rejected"} => verdict.createdAt > trigger_timestamp
  /\ \A s \in signals : s.createdAt > s.trigger

\* a member approved at exactly the trigger timestamp, which was passed over,
\* and approved again later, which was consumed
C4_Witness ==
  /\ verdict.status = "approved"
  /\ verdict.user = "alice"
  /\ \E k \in 1..Len(acomments) :
       /\ acomments[k].author = "alice"
       /\ acomments[k].body = {"approved"}
       /\ acomments[k].createdAt = trigger_timestamp
       /\ acomments[k].id \notin considered
       /\ acomments[k].id < verdict.id

\* C5: a merge call is issued for a candidate only after its CI run was seen
\* completed with conclusion success, and never for a candidate whose rebase
\* failed.
C5_MergeOnlyAfterRebaseAndCi ==
  \A m \in mergeCalls : m.ci = "success" /\ m.rebased

\* C6: once validator and pipeline have finished, every candidate identifier
\* of the request is in exactly one outcome bucket.
C6_ExactlyOneBucket ==
  ppc = "done" =>
    \A id \in Range(parse_pr_numbers(request)) :
      Cardinality({b \in BucketNames : id \in Range(BucketOf(b))}) = 1

\* C7: the pipeline starts on candidates in strictly ascending identifier order.
C7_StrictlyAscending ==
  \A k \in 1..(Len(started) - 1) : started[k] < started[k + 1]

\* C9: of two runs started together for one originator that nobody holds a
\* tracking item for, the admission checks never refuse both.
C9_NeverBothRefused ==
  \A r1, r2 \in Runs :
    (r1 # r2 /\ lorig[r1] = lorig[r2] /\ tracking = {})
      => ~(lpc[r1] \in Refused /\ lpc[r2] \in Refused)

C11_FailureIsReported ==
  ppc \in {"trigger", "wait_start", "wait_ci", "merge"} => rebaseOk

\* C12: no adapter operation the lock manager, the pipeline or the release
\* step calls raises; each returns a structured result.
C12_AdapterNeverRaises ==
  \A r \in Runs : lrc[r].raised = {}

\* C13: the reporter closes the originator if and only if at least one
\* candidate produced an outcome in the run; when nothing was processed the
\* originator is left open.
C13_CloseIffProcessed ==
  ppc = "reported" =>
    /\ ([op |-> "close_issue_with_comment", target |-> <<>>, category |-> "originator"]
          \in reportCalls)
         <=> (\E b \in BucketNames : BucketOf(b) # <<>>)
    /\ (\A b \in BucketNames : BucketOf(b) = <<>>) => originatorOpen

\* the reporter ran after a rejected request and left the originator open
C13_Witness ==
  /\ ppc = "reported"
  /\ request # <<<<>>, <<>>>>
  /\ \A b \in BucketNames : BucketOf(b) = <<>>
  /\ originatorOpen
  /\ [op |-> "summary_comment", target |-> <<>>, category |-> "stays_open"] \in reportCalls

\* C14: a failure of one candidate at any step puts that candidate, and only
\* it, into a bucket and the pipeline goes on with the next one: once the loop
\* has begun, every candidate of the mergeable list eventually has an outcome.
C14_EveryCandidateGetsOutcome ==
  /\ [][\A b \in DOMAIN buckets :
          \/ buckets'[b] = buckets[b]
          \/ /\ buckets'[b] = Append(buckets[b], str(Current))
             /\ \A c \in DOMAIN buckets \ {b} : buckets'[c] = buckets[c]]_vars
  /\ (ppc = "update") ~>
       /\ ppc \in {"done", "reported"}
       /\ \A k \in 1..Len(pr_numbers) :
            \E b \in DOMAIN buckets : str(pr_numbers[k]) \in Range(buckets[b])
       /\ Len(buckets.merged) + Len(buckets.failed_update) + Len(buckets.failed_ci)
            + Len(buckets.timeout) + Len(buckets.failed_merge)
            + Len(buckets.startup_timeout) = Len(pr_numbers)

\* the first of two candidates failed and the second was still merged
C14_Witness ==
  /\ ppc = "done"
  /\ pr_numbers = <<7, 12>>
  /\ buckets.merged = <<str(12)>>
  /\ \E b \in DOMAIN buckets \ {"merged"} : buckets[b] = <<str(7)>>

\* C15: validate_pr says mergeable if and only if, for the snapshot it read,
\* the state is OPEN, the base is the default branch, the mergeable state is
\* not CONFLICTING, the APPROVED reviews number at least the required count and
\* every status-check entry has state SUCCESS; otherwise it says unmergeable
\* and gives at least one reason.
C15_MergeableIff ==
  \A snap \in vsnapshot, res \in vresult, required_approvals \in vrequired :
    /\ res.is_mergeable <=>
         /\ snap.info.ok
         /\ snap.state = "OPEN"
         /\ snap.info.baseRefName = DefaultBranch
         /\ snap.info.mergeable # "CONFLICTING"
         /\ Cardinality({k \in 1..Len(snap.info.reviews) :
                           snap.info.reviews[k] = "APPROVED"}) >= required_approvals
         /\ \A k \in 1..Len(snap.info.statusCheckRollup) :
              snap.info.statusCheckRollup[k] = "SUCCESS"
    /\ ~res.is_mergeable => res.failure_reasons # <<>>

\* a snapshot in mergeable state UNKNOWN was accepted
C15_Witness ==
  /\ vpc = "done"
  /\ \E snap \in vsnapshot, res \in vresult :
       snap.info.mergeable = "UNKNOWN" /\ res.is_mergeable

\* C16: an approvals override of "0" or of a negative number is treated as
\* absent: the required count is then the one the branch protection gives.
C16_NonPositiveOverrideIsAbsent ==
  \A response \in protection, required_approvals \in vrequired :
    (py_int(override.text).ok /\ py_int(override.text).value <= 0)
      => required_approvals = get_required_approvals(<<>>, response)

\* C17: with no override, a branch protection answer that is absent (404),
\* forbidden (403) or unparsable makes the required count 1.
C17_ProtectionFailureDefaultsToOne ==
  \A response \in protection, required_approvals \in vrequired :
    (manual = <<>> /\ ~response.exitOk) => required_approvals = 1

C19_NoMemberSignalTimesOut ==
  apc = "done" =>
    \/ \E k \in 1..Len(acomments) :
         /\ acomments[k].kind = "human"
         /\ acomments[k].author \in Members
         /\ acomments[k].createdAt > trigger_timestamp
         /\ acomments[k].body \cap (approval_keywords \cup rejection_keywords) # {}
    \/ /\ verdict.status = "timeout"
       /\ elapsed_minutes = TimeoutMinutes

\* C20: a comment the orchestrator posted itself (request, reminder, warning,
\* confirmation) is never taken as the approval or rejection signal, whichever
\* account it posts as.
C20_OwnCommentsAreNoSignal ==
  verdict.status \in {"approved", "rejected"} =>
    \A k \in 1..Len(acomments) :
      acomments[k].id = verdict.id => acomments[k].kind = "human"

\* C21: when the run is cancelled in the middle of the merge pipeline, the
\* outcomes of the candidates merged before the cancellation stay recorded and
\* reach the reporter; only the candidate in process loses its outcome.
C21_MergedSurviveCancellation ==
  ppc = "cancelled" => parse_environment_data.merged = buckets.merged

\* C22: a candidate whose branch update failed is bucketed failed_update
\* and gets no trigger comment, no CI wait and no merge call; a candidate whose
\* trigger comment or trigger timestamp could not be had is bucketed
\* failed_update and its steps C to E are skipped.
C22_FailedUpdateSkipsRest ==
  /\ (ppc \in {"update", "trigger", "wait_start", "wait_ci", "merge"}
        /\ started # <<>> /\ started[Len(started)] = Current /\ ppc # "update"
        /\ ~rebaseOk)
       => FALSE
  /\ ppc \in {"wait_start", "wait_ci", "merge"} => ptrigger # None
  /\ \A call \in mergeCalls : call.rebased

\* C23: the lock is scoped to one originator: an open tracking item of
\* originator M is never found for an originator N different from M, so it
\* neither refuses a run for N as a duplicate nor is closed by the release of
\* a run for N.
C23_LockScopedToOriginator ==
  \A c \in calls :
    c.op \in {"duplicate_comment", "close_issue"} =>
      \A t \in tracking : t.num = c.arg => t.orig = lorig[c.run]

C25_DuplicateCheckFailsOpen ==
  /\ \A o \in Originators :
       /\ find_existing_tracking_issue(o, FALSE) = None
       /\ check_duplicate_runs_main(find_existing_tracking_issue(o, FALSE)) = 0
  /\ \A c \in calls :
       c.op = "duplicate_comment" => \E t \in tracking : t.num = c.arg

\* a run passed the duplicate check and went on to the creation although an
\* open item of its originator was there all the time
C25_Witness ==
  \E r \in Runs, t \in tracking :
    /\ t.open
    /\ t.orig = lorig[r]
    /\ lrc[r].dup = {0}
    /\ Call(r, "create_issue", lorig[r]) \in calls


\* C26: the merge call carries delete_branch=true only when the head branch
\* name was obtained and the protection query answered that the branch is not
\* protected; a refused (403) or failed query, or an unknown name, keeps the
\* branch
KnownUnprotected(response) ==
  response.text = "json" /\ response.value = ErrorDoc("404", "Branch not protected")
C26_DeleteBranchOnlyWhenKnownUnprotected ==
  \A i \in minput : \A o \in moutput :
    (o.done.merge_called /\ o.done.delete_branch) =>
        (i.branch = "json" /\ KnownUnprotected(i.protection))

C28_BucketAfterMergeCall ==
  \A i \in minput : \A o \in moutput :
    o.done.merge_called =>
      /\ (i.mergeOk /\ i.verify = "json") =>
            o.bucket = (IF o.done.final = "MERGED" THEN "merged" ELSE "failed_merge")
      /\ (i.mergeOk /\ i.verify # "json") => o.bucket = "merged"
      /\ ~i.mergeOk => o.bucket = "failed_merge"

\* C29: the wait for the workflow run ends at the first poll that sees the
\* run completed, towards the merge step when the conclusion is success and
\* in failed_ci for any other conclusion; it ends in timeout when the polls
\* allowed by max_wait_seconds are used up; any other poll only adds one
\* check interval to the time waited
BucketedAs(name) ==
  /\ buckets' = [buckets EXCEPT ![name] = Append(@, str(Current))]
  /\ ppc' \in {"update", "done"}
C29_CiWaitResult ==
  [][(ppc = "wait_ci" /\ ppc' # "cancelled") =>
       IF wait_time >= MaxCiPolls THEN BucketedAs("timeout")
       ELSE \/ /\ ciRuns[run_id] = "success"
               /\ ppc' = "merge" /\ buckets' = buckets
            \/ /\ ciRuns[run_id] \notin {"success", "in_progress"}
               /\ BucketedAs("failed_ci")
            \/ /\ ppc' = "wait_ci" /\ buckets' = buckets
               /\ wait_time' = wait_time + 1
               /\ wait_time' <= MaxCiPolls]_<<ppc, buckets, wait_time>>
\* a run seen completed after a poll that showed nothing, one candidate on its
\* way to the merge and one in failed_ci, and a wait that ran out
C29_Witness ==
  /\ ppc = "done"
  /\ buckets.timeout # <<>>
  /\ buckets.failed_ci # <<>>

\* C30: the wait for the "CI job started" comment ends with the digits of the
\* first comment of the candidate, in listing order, that was created after
\* the trigger timestamp and has both "CI job started" and actions/runs/
\* followed by digits; when the polls allowed by max_startup_wait are used up
\* it ends without a run id and the candidate is in startup_timeout
StartedComments ==
  {k \in 1..Len(prComments) :
     /\ prComments[k].pr = Current
     /\ prComments[k].createdAt > ptrigger
     /\ CiStartedBody \subseteq prComments[k].body
     /\ prComments[k].run # None}
C30_StartupWaitResult ==
  [][(ppc = "wait_start" /\ ppc' # "cancelled") =>
       IF wait_time >= MaxStartupPolls
       THEN BucketedAs("startup_timeout") /\ run_id' = run_id
       ELSE \/ /\ StartedComments # {}
               /\ \E k \in StartedComments :
                    /\ \A j \in StartedComments : k <= j
                    /\ run_id' = prComments[k].run
               /\ ppc' = "wait_ci" /\ buckets' = buckets
            \/ /\ ppc' = "wait_start" /\ buckets' = buckets
               /\ wait_time' = wait_time + 1
               /\ wait_time' <= MaxStartupPolls]_<<ppc, buckets, wait_time>>
\* the first candidate ran out of polls with a comment that lacks the run URL,
\* the second got the run id of its comment
C30_Witness ==
  /\ ppc = "wait_ci"
  /\ pr_numbers = <<7, 12>>
  /\ buckets.startup_timeout = <<str(7)>>
  /\ \E k \in 1..Len(prComments) :
       /\ prComments[k].pr = 7 /\ prComments[k].body = {"CI job started"}
  /\ \E k \in StartedComments : run_id = prComments[k].run

\* C35: the required-approval count the validator compares review counts
\* against is at least 1, whatever the override and whatever the branch
\* protection answer
C35_RequiredApprovalsAtLeastOne ==
  \A required_approvals \in vrequired : required_approvals >= 1

\* C36: when the re-fetch before the merge fails or prints something that
\* does not parse, the OPEN / CONFLICTING test is passed over and the merge
\* call is made, whatever the state of the candidate
C36_UnreadableRefetchStillMerges ==
  \A i \in minput : \A o \in moutput :
    i.details # "json" =>
      /\ o.done.merge_called
      /\ ~o.done.conflict_comment
\* the re-fetch printed nothing for a closed, conflicting candidate and the
\* merge call was made
C36_Witness ==
  /\ mpc = "done"
  /\ \E i \in minput : \E o \in moutput :
       /\ i.details = "" /\ i.state = "CLOSED" /\ i.conflicting
       /\ o.done.merge_called /\ o.bucket = "failed_merge"

\* C38: over the whole approval loop at most one warning is posted about a
\* given keyword comment of a non-member, every warning is about such a
\* comment, and a warning does not end the loop: the loop ends only with a
\* verdict or with the timeout
WarningsAbout(id) ==
  {k \in 1..Len(acomments) : acomments[k].kind = "warning" /\ acomments[k].about = id}
C38_OneWarningPerComment ==
  /\ \A c \in 1..Len(acomments) : Cardinality(WarningsAbout(acomments[c].id)) <= 1
  /\ \A k \in 1..Len(acomments) :
       acomments[k].kind = "warning" =>
         \E c \in 1..Len(acomments) :
           /\ acomments[c].id = acomments[k].about
           /\ acomments[c].author \notin team_members
           /\ acomments[c].body \cap (approval_keywords \cup rejection_keywords) # {}
           /\ <<acomments[c].author, acomments[c].id>> \in
                warned_unauthorized_approvals \cup warned_unauthorized_rejections
  /\ apc = "done" => verdict.status \in {"approved", "rejected", "timeout"}
\* a warning was posted and at least one more poll has read the same comment
\* since, the loop still polling
C38_Witness ==
  /\ apc = "polling"
  /\ \E k \in 1..Len(acomments) :
       /\ acomments[k].kind = "warning"
       /\ now >= acomments[k].createdAt + 2
       /\ Cardinality(WarningsAbout(acomments[k].about)) = 1

\* C39: every reminder on the originator was posted by a poll at an elapsed
\* minute that is a positive multiple of reminder_interval and smaller than
\* timeout_minutes, states timeout_minutes minus that minute, never zero, and
\* shares its poll with no other reminder and no confirmation; a poll without
\* verdict whose comments reach the platform ends with a reminder exactly
\* when its minute is such a multiple
ElapsedAt(comment) == comment.createdAt - trigger_timestamp
MemberSignals ==
  {k \in 1..Len(acomments) :
     /\ acomments[k].createdAt > trigger_timestamp
     /\ acomments[k].author \notin {"github-actions[bot]", "github-actions"}
     /\ acomments[k].author \in Members
     /\ acomments[k].body \cap (approval_keywords \cup rejection_keywords) # {}}
C40_FirstMemberSignalDecides ==
  verdict.status \in {"approved", "rejected"} =>
    \E k \in MemberSignals :
      /\ \A j \in MemberSignals : k <= j
      /\ acomments[k].id = verdict.id
      /\ verdict.user = acomments[k].author
      /\ verdict.status = IF acomments[k].body \cap approval_keywords # {}
                          THEN "approved" ELSE "rejected"

\* C37: a tracking item that could not be closed does not fail the release:
\* close_tracking_issue.py ends with exit status 0 whether or not the close
\* went through
C37_ReleaseFailureExitsZero ==
  \A r \in Runs : lrc[r].close \subseteq {0}

\* C32: when the summary comment on the originator is refused, the reporter
\* prints the failure and goes on: every entry of a failure bucket still gets
\* its comment call, the close call is made when the originator is to be
\* closed, and the reporter ends with exit status 0
SummaryRefused ==
  [op |-> "refused", target |-> <<>>, category |-> "summary_comment"] \in reportCalls
C32_ReportFailureDoesNotAbort ==
  (ppc = "reported" /\ SummaryRefused) =>
    /\ [op |-> "print", target |-> <<>>, category |-> "Failed to post summary"]
         \in reportCalls
    /\ \A b \in BucketNames \ {"merged"} : \A k \in 1..Len(BucketOf(b)) :
         \E c \in reportCalls :
           c.op = "comment_on_pr" /\ c.category = b /\ c.target = BucketOf(b)[k]
    /\ should_close_issue(parse_environment_data) =>
         [op |-> "close_issue_with_comment", target |-> <<>>, category |-> "originator"]
           \in reportCalls
    /\ rrc = {0}

\* C33: every entry of a failure bucket gets exactly one comment call on its
\* candidate, addressed to the author of the candidate and with the message of
\* that bucket; a candidate gets one such comment at most and a merged
\* candidate gets none
CommentsOn(id) == {c \in reportCalls : c.op = "comment_on_pr" /\ c.target = id}
C33_OneCommentPerFailedCandidate ==
  ppc = "reported" =>
    \A id \in Range(parse_pr_numbers(request)) :
      /\ (\E b \in BucketNames \ {"merged"} : id \in Range(BucketOf(b)))
           => /\ Cardinality(CommentsOn(id)) = 1
              /\ \A c \in CommentsOn(id) :
                   c.author = PrAuthor /\ id \in Range(BucketOf(c.category))
      /\ id \in Range(BucketOf("merged")) => CommentsOn(id) = {}

\* C31: the release PR is merged only when no regular candidate is left
\* without an outcome, a release PR was given and validate_pr accepted it; a
\* release PR that validate_pr rejected is never merged
ReleaseLanded == \E c \in relCall : c.landed
C31_ReleaseMergedOnlyWhenValid ==
  ReleaseLanded => /\ relRegular = 0
                   /\ release_pr # <<>>
                   /\ relValidation = {TRUE}

\* C34: with two runs at Step E on one candidate the platform merges it once
\* at most, a run whose re-fetch came after the merge of the other ends in
\* failed_merge without a merge call, and a run reports merged only when its
\* own merge call merged the candidate
C34_StepESafeUnderRace ==
  /\ Len(raceMerges) <= 1
  /\ \A r \in Runs :
       /\ (racepc[r] = "done" /\ raceSeen[r].at_refetch = "MERGED")
            => raceBucket[r] = "failed_merge" /\ ~raceSeen[r].merge_called
       /\ raceBucket[r] = "merged" => r \in Range(raceMerges)

=============================================================================
